---- MODULE Spec2Model ----
(***************************************************************************)
(* A model of pygcf, the Global Container Format reader and writer.        *)
(*                                                                         *)
(* Bytes objects are sequences of integers 0..255.  struct's "=" formats   *)
(* are modelled with standard sizes and little-endian byte order.  A call  *)
(* that raises is the value Err; a call that returns v is Ok(v).           *)
(* TLC integers are 32-bit signed: the u32 and u64 inputs are drawn from   *)
(* 0..2^31-1.                                                              *)
(***************************************************************************)
EXTENDS Integers, Sequences, FiniteSets, TLC

VARIABLES
    f,        \* the content of the file object (a BytesIO): a sequence of bytes
    pos,      \* the cursor of the file object (fileobj.tell())
    header,   \* the Header dict the writer and the reader are given
    pc,       \* the position of the caller in its scenario
    written,  \* what the writer wrote so far: one record per resource
    lastop,   \* the function called last
    pos0,     \* the cursor before the last call
    f0,       \* the file content before the last call
    arg,      \* the argument of the last call
    ret,      \* what the last call returned: Ok(v), or Err when it raised
    ridx,     \* the number of resources the reader has passed over
    rheader,  \* the header the reader got from read_header
    rdesc     \* the descriptor the reader got last

vars == <<f, pos, header, pc, written, lastop, pos0, f0, arg, ret, ridx, rheader, rdesc>>

----------------------------------------------------------------------------
(* Bounds of the model. *)

\* the number of resources of a container
MaxResources == 2
\* the largest content size of a resource
MaxContent == 3
\* the largest extension size of a custom descriptor
MaxExt == 2

----------------------------------------------------------------------------
(* Results of calls. *)

Err == [ok |-> FALSE]
Ok(v) == [ok |-> TRUE, val |-> v]
None == [none |-> TRUE]

Min(a, b) == IF a < b THEN a ELSE b

----------------------------------------------------------------------------
(* struct.pack / struct.unpack, standard sizes, little-endian. *)

IsU8(v) == v \in Int /\ 0 <= v /\ v < 256
IsU16(v) == v \in Int /\ 0 <= v /\ v < 65536
\* v < 2^32, written without a literal that exceeds TLC's integers
IsU32(v) == v \in Int /\ 0 <= v /\ (v \div 65536) < 65536
IsU64(v) == v \in Int /\ 0 <= v

PackB(v) == <<v>>
PackH(v) == <<v % 256, (v \div 256) % 256>>
PackI(v) == <<v % 256, (v \div 256) % 256, (v \div 65536) % 256, (v \div 16777216) % 256>>
\* a u64 whose value fits TLC's integers: the high four bytes are zero
PackQ(v) == PackI(v) \o <<0, 0, 0, 0>>

UnpackB(b) == b[1]
UnpackH(b) == b[1] + 256 * b[2]
UnpackI(b) == b[1] + 256 * b[2] + 65536 * b[3] + 16777216 * b[4]
UnpackQ(b) == UnpackI(SubSeq(b, 1, 4))

\* raw[a:b] of Python, 0-based and half-open, clipped to the buffer
Slice(raw, a, b) == SubSeq(raw, a + 1, Min(b, Len(raw)))

Zeros(n) == [i \in 1..n |-> 0]

----------------------------------------------------------------------------
(* gcf/header.py *)

DEFAULT_VERSION == 3
HEADER_SIZE == 8
UNPADDED == 1

\* b"GC"
MAGIC_PREFIX == <<71, 67>>

\* str(version).zfill(2).encode("utf-8") for -9 <= version <= 99
VersionBytes(version) ==
    IF version < 0 THEN <<45, 48 + (0 - version)>>
    ELSE <<48 + (version \div 10), 48 + (version % 10)>>

\* make_magic_number that reads the four bytes as a big-endian u32
make_magic_number_big_endian(version) ==
    IF version > 99 THEN Err
    ELSE IF version < -9 THEN Err
    ELSE LET b == MAGIC_PREFIX \o VersionBytes(version)
         IN Ok(UnpackI(<<b[4], b[3], b[2], b[1]>>))

\* "GC" + the two version characters, read as a little-endian u32; a version
\* below -9 gives more than four bytes, which struct.unpack refuses
make_magic_number(version) ==
    IF version > 99 THEN Err
    ELSE IF version < -9 THEN Err
    ELSE Ok(UnpackI(MAGIC_PREFIX \o VersionBytes(version)))

\* serialize_header with resource_count and flags in the wrong order
serialize_header_swapped(h) ==
    IF IsU32(h.magic) /\ IsU16(h.resource_count) /\ IsU16(h.flags)
    THEN Ok(PackI(h.magic) \o PackH(h.flags) \o PackH(h.resource_count))
    ELSE Err

serialize_header(h) ==
    IF IsU32(h.magic) /\ IsU16(h.resource_count) /\ IsU16(h.flags)
    THEN Ok(PackI(h.magic) \o PackH(h.resource_count) \o PackH(h.flags))
    ELSE Err

\* ContainerFlags(value): a Flag with the one member UNPADDED
ContainerFlags(v) == IF v \in {0, UNPADDED} THEN Ok(v) ELSE Err

deserialize_header(raw) ==
    IF Len(raw) # HEADER_SIZE THEN Err
    ELSE LET flags == ContainerFlags(UnpackH(SubSeq(raw, 7, 8)))
         IN IF ~flags.ok THEN Err
            ELSE Ok([magic |-> UnpackI(SubSeq(raw, 1, 4)),
                     resource_count |-> UnpackH(SubSeq(raw, 5, 6)),
                     flags |-> flags.val])

----------------------------------------------------------------------------
(* gcf/resource.py *)

COMMON_DESCRIPTOR_SIZE == 16
BLOB == 0
TEXTURE == 1

CommonOf(d) ==
    [type |-> d.type, format |-> d.format, content_size |-> d.content_size,
     extension_size |-> d.extension_size,
     supercompression_scheme |-> d.supercompression_scheme]

\* serialize_common_resource_descriptor with the two u16 fields in the wrong order
serialize_common_resource_descriptor_swapped(d) ==
    IF IsU32(d.type) /\ IsU32(d.format) /\ IsU32(d.content_size)
       /\ IsU16(d.extension_size) /\ IsU16(d.supercompression_scheme)
    THEN Ok(PackI(d.type) \o PackI(d.format) \o PackI(d.content_size)
            \o PackH(d.supercompression_scheme) \o PackH(d.extension_size))
    ELSE Err

serialize_common_resource_descriptor(d) ==
    IF IsU32(d.type) /\ IsU32(d.format) /\ IsU32(d.content_size)
       /\ IsU16(d.extension_size) /\ IsU16(d.supercompression_scheme)
    THEN Ok(PackI(d.type) \o PackI(d.format) \o PackI(d.content_size)
            \o PackH(d.extension_size) \o PackH(d.supercompression_scheme))
    ELSE Err

\* deserialize_common_resource_descriptor that fills a short buffer with zeros
deserialize_common_resource_descriptor_zero_filled(raw) ==
    LET full == raw \o Zeros(COMMON_DESCRIPTOR_SIZE - Min(Len(raw), COMMON_DESCRIPTOR_SIZE))
    IN Ok([type |-> UnpackI(SubSeq(full, 1, 4)),
           format |-> UnpackI(SubSeq(full, 5, 8)),
           content_size |-> UnpackI(SubSeq(full, 9, 12)),
           extension_size |-> UnpackH(SubSeq(full, 13, 14)),
           supercompression_scheme |-> UnpackH(SubSeq(full, 15, 16))])

deserialize_common_resource_descriptor(raw) ==
    IF Len(raw) < COMMON_DESCRIPTOR_SIZE THEN Err
    ELSE Ok([type |-> UnpackI(SubSeq(raw, 1, 4)),
             format |-> UnpackI(SubSeq(raw, 5, 8)),
             content_size |-> UnpackI(SubSeq(raw, 9, 12)),
             extension_size |-> UnpackH(SubSeq(raw, 13, 14)),
             supercompression_scheme |-> UnpackH(SubSeq(raw, 15, 16))])

----------------------------------------------------------------------------
(* gcf/__init__.py: _align_size, which gcf/file.py calls as align_size *)

RECURSIVE BitAnd(_, _)
\* x & y for x >= 0 and y >= 0
BitAnd(x, y) ==
    IF x = 0 \/ y = 0 THEN 0
    ELSE (x % 2) * (y % 2) + 2 * BitAnd(x \div 2, y \div 2)

\* x & y for x >= 0 and y >= -1 (-1 is all ones)
PyAnd(x, y) == IF y = -1 THEN x ELSE BitAnd(x, y)

\* x & ~m for x >= 0 and m >= -1
PyAndNot(x, m) == IF m = -1 THEN 0 ELSE x - BitAnd(x, m)

\* align_size that forgets to add the mask, and so rounds down
align_size_round_down(orig_size, alignment) ==
    IF PyAnd(alignment, alignment - 1) # 0 THEN Err
    ELSE LET mask == alignment - 1
         IN Ok(PyAndNot(orig_size, mask))

align_size(orig_size, alignment) ==
    IF PyAnd(alignment, alignment - 1) # 0 THEN Err
    ELSE LET mask == alignment - 1
         IN Ok(PyAndNot(orig_size + mask, mask))

----------------------------------------------------------------------------
(* gcf/compression.py *)

NO_COMPRESSION == 0
ZLIB == 1
DEFLATE == 2
TEST_SCHEME == 65535

RECURSIVE Adler(_, _, _, _)
\* the two 16-bit halves <<a, b>> of zlib's Adler-32 checksum of data[i..]
Adler(data, i, a, b) ==
    IF i > Len(data) THEN <<a, b>>
    ELSE LET a2 == (a + data[i]) % 65521
         IN Adler(data, i + 1, a2, (b + a2) % 65521)

\* big-endian bytes of the Adler-32 checksum
AdlerBytes(data) ==
    LET ab == Adler(data, 1, 1, 0)
    IN <<ab[2] \div 256, ab[2] % 256, ab[1] \div 256, ab[1] % 256>>

\* A raw deflate stream (wbits=-15) holding data.  zlib's level-6 coding is
\* modelled by the stream's simplest valid form, one final stored block:
\* 0x01, LEN, ~LEN, data.
compress_deflate(data) ==
    <<1>> \o PackH(Len(data)) \o PackH(65535 - Len(data)) \o data

decompress_deflate(raw) ==
    IF Len(raw) < 5 THEN Err
    ELSE LET n == UnpackH(SubSeq(raw, 2, 3))
         IN IF raw[1] = 1 /\ UnpackH(SubSeq(raw, 4, 5)) = 65535 - n /\ Len(raw) = 5 + n
            THEN Ok(SubSeq(raw, 6, Len(raw)))
            ELSE Err

\* A zlib stream (wbits=15): the header 0x78 0x9C, the deflate stream, Adler-32.
compress_zlib(data) == <<120, 156>> \o compress_deflate(data) \o AdlerBytes(data)

decompress_zlib(raw) ==
    IF Len(raw) < 6 THEN Err
    ELSE IF SubSeq(raw, 1, 2) # <<120, 156>> THEN Err
    ELSE LET body == decompress_deflate(SubSeq(raw, 3, Len(raw) - 4))
         IN IF ~body.ok THEN Err
            ELSE IF SubSeq(raw, Len(raw) - 3, Len(raw)) # AdlerBytes(body.val) THEN Err
            ELSE body

compress_identity(data) == data

decompress_identity(data) == Ok(data)

\* the keys of COMPRESSOR_TABLE
Registered == {NO_COMPRESSION, ZLIB, DEFLATE, TEST_SCHEME}

compress(data, supercompression_scheme) ==
    IF supercompression_scheme \notin Registered THEN Err
    ELSE IF supercompression_scheme = NO_COMPRESSION THEN Ok(compress_identity(data))
    ELSE IF supercompression_scheme = ZLIB THEN Ok(compress_zlib(data))
    ELSE Ok(compress_deflate(data))

\* decompress with a table whose TEST entry pairs the zlib decompressor
decompress_test_as_zlib(data, supercompression_scheme) ==
    IF supercompression_scheme \notin Registered THEN Err
    ELSE IF supercompression_scheme = NO_COMPRESSION THEN decompress_identity(data)
    ELSE IF supercompression_scheme \in {ZLIB, TEST_SCHEME} THEN decompress_zlib(data)
    ELSE decompress_deflate(data)

decompress(data, supercompression_scheme) ==
    IF supercompression_scheme \notin Registered THEN Err
    ELSE IF supercompression_scheme = NO_COMPRESSION THEN decompress_identity(data)
    ELSE IF supercompression_scheme = ZLIB THEN decompress_zlib(data)
    ELSE decompress_deflate(data)

----------------------------------------------------------------------------
(* gcf/texture.py *)

EXTENDED_DESCRIPTOR_SIZE == 16
TOTAL_DESCRIPTOR_SIZE == COMMON_DESCRIPTOR_SIZE + EXTENDED_DESCRIPTOR_SIZE
MIP_LEVEL_SIZE == 24
TEXTURE_1D == 1
TEXTURE_2D == 3
TEXTURE_3D == 7

make_texture_resource_descriptor(format_, content_size, supercompression_scheme, base_width, base_height, base_depth, layer_count, mip_level_count, texture_group, flags) ==
    [type |-> TEXTURE, format |-> format_, content_size |-> content_size,
     extension_size |-> EXTENDED_DESCRIPTOR_SIZE,
     supercompression_scheme |-> supercompression_scheme,
     base_width |-> base_width, base_height |-> base_height,
     base_depth |-> base_depth, layer_count |-> layer_count,
     mip_level_count |-> mip_level_count, flags |-> flags,
     texture_group |-> texture_group]

\* serialize_mip_level_descriptor with slice_stride and layer_stride in the wrong order
serialize_mip_level_descriptor_swapped(d) ==
    IF IsU32(d.compressed_size) /\ IsU32(d.uncompressed_size) /\ IsU32(d.row_stride)
       /\ IsU32(d.slice_stride) /\ IsU32(d.layer_stride)
    THEN Ok(PackI(d.compressed_size) \o PackI(d.uncompressed_size) \o PackI(d.row_stride)
            \o PackI(d.layer_stride) \o PackI(d.slice_stride) \o PackI(0))
    ELSE Err

serialize_mip_level_descriptor(d) ==
    IF IsU32(d.compressed_size) /\ IsU32(d.uncompressed_size) /\ IsU32(d.row_stride)
       /\ IsU32(d.slice_stride) /\ IsU32(d.layer_stride)
    THEN Ok(PackI(d.compressed_size) \o PackI(d.uncompressed_size) \o PackI(d.row_stride)
            \o PackI(d.slice_stride) \o PackI(d.layer_stride) \o PackI(0))
    ELSE Err

\* struct.unpack refuses a buffer longer than the format
deserialize_mip_level_descriptor(raw) ==
    IF Len(raw) < MIP_LEVEL_SIZE THEN Err
    ELSE IF Len(raw) # MIP_LEVEL_SIZE THEN Err
    ELSE Ok([compressed_size |-> UnpackI(SubSeq(raw, 1, 4)),
             uncompressed_size |-> UnpackI(SubSeq(raw, 5, 8)),
             row_stride |-> UnpackI(SubSeq(raw, 9, 12)),
             slice_stride |-> UnpackI(SubSeq(raw, 13, 16)),
             layer_stride |-> UnpackI(SubSeq(raw, 17, 20))])

serialize_texture_resource_descriptor(d) ==
    LET common_data == serialize_common_resource_descriptor(d)
    IN IF ~common_data.ok THEN Err
       ELSE IF IsU16(d.base_width) /\ IsU16(d.base_height) /\ IsU16(d.base_depth)
               /\ IsU8(d.layer_count) /\ IsU8(d.mip_level_count) /\ IsU16(d.flags)
               /\ IsU32(d.texture_group)
       THEN Ok(common_data.val \o PackH(d.base_width) \o PackH(d.base_height)
               \o PackH(d.base_depth) \o PackB(d.layer_count) \o PackB(d.mip_level_count)
               \o PackH(d.flags) \o PackI(d.texture_group) \o PackH(0))
       ELSE Err

\* deserialize_texture_resource_descriptor that reads mip_level_count from the
\* byte of layer_count
deserialize_texture_resource_descriptor_same_byte(raw, common_descriptor) ==
    IF Len(raw) < TOTAL_DESCRIPTOR_SIZE THEN Err
    ELSE LET common == IF common_descriptor = None
                       THEN deserialize_common_resource_descriptor(raw).val
                       ELSE common_descriptor
             ext == Slice(raw, COMMON_DESCRIPTOR_SIZE, TOTAL_DESCRIPTOR_SIZE)
         IN Ok([type |-> common.type, format |-> common.format,
                content_size |-> common.content_size,
                extension_size |-> common.extension_size,
                supercompression_scheme |-> common.supercompression_scheme,
                base_width |-> UnpackH(SubSeq(ext, 1, 2)),
                base_height |-> UnpackH(SubSeq(ext, 3, 4)),
                base_depth |-> UnpackH(SubSeq(ext, 5, 6)),
                layer_count |-> UnpackB(SubSeq(ext, 7, 7)),
                mip_level_count |-> UnpackB(SubSeq(ext, 7, 7)),
                flags |-> UnpackH(SubSeq(ext, 9, 10)),
                texture_group |-> UnpackI(SubSeq(ext, 11, 14))])

\* common_descriptor is None when the caller passes none
deserialize_texture_resource_descriptor(raw, common_descriptor) ==
    IF Len(raw) < TOTAL_DESCRIPTOR_SIZE THEN Err
    ELSE LET common == IF common_descriptor = None
                       THEN deserialize_common_resource_descriptor(raw).val
                       ELSE common_descriptor
             ext == Slice(raw, COMMON_DESCRIPTOR_SIZE, TOTAL_DESCRIPTOR_SIZE)
         IN Ok([type |-> common.type, format |-> common.format,
                content_size |-> common.content_size,
                extension_size |-> common.extension_size,
                supercompression_scheme |-> common.supercompression_scheme,
                base_width |-> UnpackH(SubSeq(ext, 1, 2)),
                base_height |-> UnpackH(SubSeq(ext, 3, 4)),
                base_depth |-> UnpackH(SubSeq(ext, 5, 6)),
                layer_count |-> UnpackB(SubSeq(ext, 7, 7)),
                mip_level_count |-> UnpackB(SubSeq(ext, 8, 8)),
                flags |-> UnpackH(SubSeq(ext, 9, 10)),
                texture_group |-> UnpackI(SubSeq(ext, 11, 14))])

RECURSIVE Join(_)
\* b"".join(layers)
Join(layers) == IF layers = <<>> THEN <<>> ELSE Head(layers) \o Join(Tail(layers))

serialize_mip_level_data(layers, supercompression_scheme) ==
    compress(Join(layers), supercompression_scheme)

\* deserialize_mip_level_data whose layers all start at offset 0
deserialize_mip_level_data_first_layer(raw, descriptor) ==
    LET layer_count == descriptor.layer_count
        decompressed_level == decompress(raw, descriptor.supercompression_scheme)
    IN IF ~decompressed_level.ok THEN Err
       ELSE IF layer_count = 0 THEN Err
       ELSE LET layer_size == Len(decompressed_level.val) \div layer_count
            IN Ok([layer_index \in 1..layer_count |->
                     Slice(decompressed_level.val, 0, layer_size)])

deserialize_mip_level_data(raw, descriptor) ==
    LET layer_count == descriptor.layer_count
        decompressed_level == decompress(raw, descriptor.supercompression_scheme)
    IN IF ~decompressed_level.ok THEN Err
       ELSE IF layer_count = 0 THEN Err
       ELSE LET layer_size == Len(decompressed_level.val) \div layer_count
            IN Ok([layer_index \in 1..layer_count |->
                     Slice(decompressed_level.val, layer_size * (layer_index - 1),
                           layer_size * (layer_index - 1) + layer_size)])

----------------------------------------------------------------------------
(* gcf/blob.py, the functions gcf/file.py imports: make_blob_resource_descriptor, *)
(* serialize_blob_descriptor, deserialize_blob_descriptor                         *)

\* Format.UNDEFINED
UNDEFINED == 0
BLOB_EXTENDED_DESCRIPTOR_SIZE == 16
BLOB_TOTAL_DESCRIPTOR_SIZE == COMMON_DESCRIPTOR_SIZE + BLOB_EXTENDED_DESCRIPTOR_SIZE

make_blob_resource_descriptor(content_size, uncompressed_size, supercompression_scheme) ==
    [type |-> BLOB, format |-> UNDEFINED, content_size |-> content_size,
     extension_size |-> BLOB_EXTENDED_DESCRIPTOR_SIZE,
     supercompression_scheme |-> supercompression_scheme,
     uncompressed_size |-> uncompressed_size]

serialize_blob_descriptor(d) ==
    LET common_data == serialize_common_resource_descriptor(d)
    IN IF ~common_data.ok THEN Err
       ELSE IF IsU64(d.uncompressed_size)
       THEN Ok(common_data.val \o PackQ(d.uncompressed_size) \o PackQ(0))
       ELSE Err

deserialize_blob_descriptor(raw, common_descriptor) ==
    IF Len(raw) < BLOB_TOTAL_DESCRIPTOR_SIZE THEN Err
    ELSE LET common == IF common_descriptor = None
                       THEN deserialize_common_resource_descriptor(raw).val
                       ELSE common_descriptor
             ext == Slice(raw, COMMON_DESCRIPTOR_SIZE, BLOB_TOTAL_DESCRIPTOR_SIZE)
         IN Ok([type |-> common.type, format |-> common.format,
                content_size |-> common.content_size,
                extension_size |-> common.extension_size,
                supercompression_scheme |-> common.supercompression_scheme,
                uncompressed_size |-> UnpackQ(SubSeq(ext, 1, 8))])

----------------------------------------------------------------------------
(* The file object of gcf/file.py: an io.BytesIO with content s and cursor p. *)

\* fileobj.read(n): the bytes returned
FRead(s, p, n) == IF p >= Len(s) THEN <<>> ELSE SubSeq(s, p + 1, Min(p + n, Len(s)))

\* fileobj.read(n): the cursor afterwards
FReadPos(s, p, n) == IF p >= Len(s) THEN p ELSE Min(p + n, Len(s))

\* fileobj.write(data): the content afterwards (a write past the end zero-fills)
FWrite(s, p, data) ==
    IF data = <<>> THEN s
    ELSE IF p > Len(s) THEN s \o Zeros(p - Len(s)) \o data
    ELSE SubSeq(s, 1, p) \o data \o SubSeq(s, p + Len(data) + 1, Len(s))

\* a bytes object, as opposed to a descriptor dict
Bytes(raw) == [bytes |-> raw]
IsBytes(d) == "bytes" \in DOMAIN d

----------------------------------------------------------------------------
(* gcf/file.py.  Each function is the record [f, pos, ret] of the file     *)
(* content, the cursor and the returned value after the call.              *)

\* read_header that does not compare the magic number
read_header_unchecked(s, p, expected_version) ==
    [f |-> s, pos |-> FReadPos(s, p, HEADER_SIZE),
     ret |-> deserialize_header(FRead(s, p, HEADER_SIZE))]

read_header(s, p, expected_version) ==
    LET raw_header == FRead(s, p, HEADER_SIZE)
        p2 == FReadPos(s, p, HEADER_SIZE)
        expected_magic_number == make_magic_number(expected_version)
        h == deserialize_header(raw_header)
    IN [f |-> s, pos |-> p2,
        ret |-> IF ~expected_magic_number.ok \/ ~h.ok THEN Err
                ELSE IF h.val.magic # expected_magic_number.val THEN Err
                ELSE h]

write_header(s, p, h) ==
    LET raw == serialize_header(h)
    IN IF ~raw.ok THEN [f |-> s, pos |-> p, ret |-> Err]
       ELSE [f |-> FWrite(s, p, raw.val), pos |-> p + Len(raw.val), ret |-> Ok(None)]

read_common_resource_descriptor(s, p) ==
    LET raw_descriptor == FRead(s, p, COMMON_DESCRIPTOR_SIZE)
    IN [f |-> s, pos |-> FReadPos(s, p, COMMON_DESCRIPTOR_SIZE),
        ret |-> deserialize_common_resource_descriptor(raw_descriptor)]

write_common_resource_descriptor(s, p, d) ==
    LET raw == serialize_common_resource_descriptor(d)
    IN IF ~raw.ok THEN [f |-> s, pos |-> p, ret |-> Err]
       ELSE [f |-> FWrite(s, p, raw.val), pos |-> p + Len(raw.val), ret |-> Ok(None)]

\* skip_padding that aligns whatever the flags say
skip_padding_always(s, p, h) ==
    [f |-> s, pos |-> align_size(p, 8).val, ret |-> Ok(None)]

skip_padding(s, p, h) ==
    LET is_alignment_required == ~(BitAnd(h.flags, UNPADDED) # 0)
    IN IF is_alignment_required
       THEN [f |-> s, pos |-> align_size(p, 8).val, ret |-> Ok(None)]
       ELSE [f |-> s, pos |-> p, ret |-> Ok(None)]

\* skip_resource that forgets the extended descriptor
skip_resource_content_only(s, p, common_descriptor, h) ==
    skip_padding(s, p + common_descriptor.content_size, h)

skip_resource(s, p, common_descriptor, h) ==
    LET extended_descriptor_size == common_descriptor.extension_size
        content_data_size == common_descriptor.content_size
        total_skip_size == extended_descriptor_size + content_data_size
    IN skip_padding(s, p + total_skip_size, h)

\* read_composite_descriptor that hands a custom descriptor back without its extension
read_composite_descriptor_common_only(s, p) ==
    LET raw_common_descriptor == FRead(s, p, COMMON_DESCRIPTOR_SIZE)
        p2 == FReadPos(s, p, COMMON_DESCRIPTOR_SIZE)
        common_descriptor == deserialize_common_resource_descriptor(raw_common_descriptor)
    IN IF ~common_descriptor.ok THEN [f |-> s, pos |-> p2, ret |-> Err]
       ELSE [f |-> s, pos |-> FReadPos(s, p2, common_descriptor.val.extension_size),
             ret |-> Ok(Bytes(raw_common_descriptor))]

read_composite_descriptor(s, p) ==
    LET raw_common_descriptor == FRead(s, p, COMMON_DESCRIPTOR_SIZE)
        p2 == FReadPos(s, p, COMMON_DESCRIPTOR_SIZE)
        common_descriptor == deserialize_common_resource_descriptor(raw_common_descriptor)
    IN IF ~common_descriptor.ok THEN [f |-> s, pos |-> p2, ret |-> Err]
       ELSE LET extended_descriptor_size == common_descriptor.val.extension_size
                resource_type == common_descriptor.val.type
                raw_extended_descriptor == FRead(s, p2, extended_descriptor_size)
                full_descriptor == raw_common_descriptor \o raw_extended_descriptor
            IN [f |-> s, pos |-> FReadPos(s, p2, extended_descriptor_size),
                ret |-> IF resource_type = BLOB
                        THEN deserialize_blob_descriptor(full_descriptor, common_descriptor.val)
                        ELSE IF resource_type = TEXTURE
                        THEN deserialize_texture_resource_descriptor(full_descriptor,
                                                                     common_descriptor.val)
                        ELSE Ok(Bytes(full_descriptor))]

\* write_composite_resource_descriptor that writes the common descriptor of a
\* descriptor whose type it does not know
write_composite_resource_descriptor_lenient(s, p, descriptor) ==
    LET raw_descriptor ==
            IF IsBytes(descriptor) THEN Ok(descriptor.bytes)
            ELSE IF "type" \notin DOMAIN descriptor THEN Ok(<<>>)
            ELSE IF descriptor.type = TEXTURE
                 THEN serialize_texture_resource_descriptor(descriptor)
            ELSE IF descriptor.type = BLOB THEN serialize_blob_descriptor(descriptor)
            ELSE serialize_common_resource_descriptor(descriptor)
    IN IF ~raw_descriptor.ok THEN [f |-> s, pos |-> p, ret |-> Err]
       ELSE [f |-> FWrite(s, p, raw_descriptor.val), pos |-> p + Len(raw_descriptor.val),
             ret |-> Ok(None)]

write_composite_resource_descriptor(s, p, descriptor) ==
    LET raw_descriptor ==
            IF IsBytes(descriptor) THEN Ok(descriptor.bytes)
            ELSE IF "type" \notin DOMAIN descriptor THEN Err
            ELSE IF descriptor.type = TEXTURE
                 THEN serialize_texture_resource_descriptor(descriptor)
            ELSE IF descriptor.type = BLOB THEN serialize_blob_descriptor(descriptor)
            ELSE Err
    IN IF ~raw_descriptor.ok THEN [f |-> s, pos |-> p, ret |-> Err]
       ELSE [f |-> FWrite(s, p, raw_descriptor.val), pos |-> p + Len(raw_descriptor.val),
             ret |-> Ok(None)]

\* write_padding that pads to the next multiple of 4
write_padding_to_4(s, p, h) ==
    IF BitAnd(h.flags, UNPADDED) # 0 THEN [f |-> s, pos |-> p, ret |-> Ok(None)]
    ELSE LET padding_size == align_size(p, 4).val - p
         IN [f |-> FWrite(s, p, Zeros(padding_size)), pos |-> p + padding_size,
             ret |-> Ok(None)]

write_padding(s, p, h) ==
    IF BitAnd(h.flags, UNPADDED) # 0 THEN [f |-> s, pos |-> p, ret |-> Ok(None)]
    ELSE LET origin == p
             aligned == align_size(origin, 8).val
             padding_size == aligned - origin
             padding == Zeros(padding_size)
         IN [f |-> FWrite(s, p, padding), pos |-> p + padding_size, ret |-> Ok(None)]

write_mip_level_descriptor(s, p, descriptor) ==
    LET raw == serialize_mip_level_descriptor(descriptor)
    IN IF ~raw.ok THEN [f |-> s, pos |-> p, ret |-> Err]
       ELSE [f |-> FWrite(s, p, raw.val), pos |-> p + Len(raw.val), ret |-> Ok(None)]

read_mip_level_descriptor(s, p) ==
    LET raw == FRead(s, p, MIP_LEVEL_SIZE)
    IN [f |-> s, pos |-> FReadPos(s, p, MIP_LEVEL_SIZE),
        ret |-> deserialize_mip_level_descriptor(raw)]

read_mip_level(s, p, texture_descriptor) ==
    LET level_descriptor == read_mip_level_descriptor(s, p)
    IN IF ~level_descriptor.ret.ok THEN level_descriptor
       ELSE LET n == level_descriptor.ret.val.compressed_size
                raw_layers == FRead(s, level_descriptor.pos, n)
                layers == deserialize_mip_level_data(raw_layers, texture_descriptor)
            IN [f |-> s, pos |-> FReadPos(s, level_descriptor.pos, n),
                ret |-> IF ~layers.ok THEN Err
                        ELSE Ok(<<level_descriptor.ret.val, layers.val>>)]

\* the total length of the layers: reduce(lambda total, layer: total + len(layer), layers, 0)
TotalLen(layers) == Len(Join(layers))

\* write_mip_level that writes compressed_size and uncompressed_size as passed
write_mip_level_sizes_as_passed(s, p, supercompression_scheme, mip_level_descriptor, layers) ==
    LET raw_layers == serialize_mip_level_data(layers, supercompression_scheme)
    IN IF ~raw_layers.ok
       THEN [f |-> s, pos |-> p, ret |-> Err, descriptor |-> mip_level_descriptor]
       ELSE LET w == write_mip_level_descriptor(s, p, mip_level_descriptor)
            IN IF ~w.ret.ok
               THEN [f |-> w.f, pos |-> w.pos, ret |-> w.ret,
                     descriptor |-> mip_level_descriptor]
               ELSE [f |-> FWrite(w.f, w.pos, raw_layers.val),
                     pos |-> w.pos + Len(raw_layers.val), ret |-> Ok(None),
                     descriptor |-> mip_level_descriptor]

\* descriptor is the caller's mip_level_descriptor after the call: the
\* function works on mip_level_descriptor.copy()
write_mip_level(s, p, supercompression_scheme, mip_level_descriptor, layers) ==
    LET raw_layers == serialize_mip_level_data(layers, supercompression_scheme)
    IN IF ~raw_layers.ok
       THEN [f |-> s, pos |-> p, ret |-> Err, descriptor |-> mip_level_descriptor]
       ELSE LET d == [mip_level_descriptor EXCEPT
                          !.compressed_size = Len(raw_layers.val),
                          !.uncompressed_size = TotalLen(layers)]
                w == write_mip_level_descriptor(s, p, d)
            IN IF ~w.ret.ok
               THEN [f |-> w.f, pos |-> w.pos, ret |-> w.ret,
                     descriptor |-> mip_level_descriptor]
               ELSE [f |-> FWrite(w.f, w.pos, raw_layers.val),
                     pos |-> w.pos + Len(raw_layers.val), ret |-> Ok(None),
                     descriptor |-> mip_level_descriptor]

----------------------------------------------------------------------------
(* The caller: a writer that builds a container as the fixtures do         *)
(* (write_header, then per resource write_composite_resource_descriptor,    *)
(* the content bytes, write_padding), and a reader that passes over it.     *)

\* the content of a resource: n bytes of one fill value
Content(n) == [i \in 1..n |-> 90]

\* the type codes of custom resources
CustomTypes == {2147483647}

\* the extension bytes of a custom descriptor: b"1234..."
CustomExtension(n) == [i \in 1..n |-> 48 + i]

BlobDescriptors(c) == {make_blob_resource_descriptor(c, 200, TEST_SCHEME)}

TextureDescriptors(c) ==
    {make_texture_resource_descriptor(29, c, TEST_SCHEME, 100, 100, 1, 5, 2, 99, TEXTURE_2D)}

CustomDescriptors(c) ==
    {Bytes(serialize_common_resource_descriptor(
               [type |-> t, format |-> UNDEFINED, content_size |-> c,
                extension_size |-> n, supercompression_scheme |-> NO_COMPRESSION]).val
           \o CustomExtension(n)) : t \in CustomTypes, n \in 0..MaxExt}

\* descriptor dicts whose type has no serializer
UnknownDicts(c) ==
    {[type |-> t, format |-> UNDEFINED, content_size |-> c, extension_size |-> 0,
      supercompression_scheme |-> NO_COMPRESSION] : t \in CustomTypes \cup {2}}
    \cup {[format |-> UNDEFINED, content_size |-> c]}

Descriptors ==
    UNION {BlobDescriptors(c) \cup TextureDescriptors(c) \cup CustomDescriptors(c)
           \cup UnknownDicts(c) : c \in 0..MaxContent}

\* the common part of a composite descriptor, as its owner knows it
CommonPart(d) ==
    IF IsBytes(d) THEN deserialize_common_resource_descriptor(d.bytes).val ELSE CommonOf(d)

Headers(versions) ==
    {[magic |-> make_magic_number(v).val, resource_count |-> n, flags |-> fl] :
        v \in versions, n \in 1..MaxResources, fl \in {0, UNPADDED}}

Init ==
    /\ f = <<>>
    /\ pos = 0
    /\ header \in Headers({DEFAULT_VERSION})
    /\ rheader = None
    /\ rdesc = None
    /\ pc = "write_header"
    /\ written = <<>>
    /\ lastop = "init"
    /\ pos0 = 0
    /\ f0 = <<>>
    /\ arg = None
    /\ ret = None
    /\ ridx = 0

\* the call `op` with argument `a`, whose outcome is the record r
Call(op, a, r) ==
    /\ lastop' = op
    /\ arg' = a
    /\ pos0' = pos
    /\ f0' = f
    /\ f' = r.f
    /\ pos' = r.pos
    /\ ret' = r.ret

WriteHeader ==
    /\ pc = "write_header"
    /\ LET r == write_header(f, pos, header)
       IN /\ Call("write_header", header, r)
          /\ pc' = IF r.ret.ok THEN "write_desc" ELSE "failed"
    /\ UNCHANGED <<header, rheader, rdesc, written, ridx>>

WriteCompositeResourceDescriptor ==
    /\ pc = "write_desc"
    /\ Len(written) < header.resource_count
    /\ \E d \in Descriptors :
         LET r == write_composite_resource_descriptor(f, pos, d)
         IN /\ Call("write_composite_resource_descriptor", d, r)
            /\ IF r.ret.ok
               THEN /\ written' = Append(written, [start |-> pos, desc |-> d, pad |-> 0, next |-> 0])
                    /\ pc' = "write_content"
               ELSE UNCHANGED <<written, pc>>
    /\ UNCHANGED <<header, rheader, rdesc, ridx>>

\* fileobj.write(content), content_size bytes long
WriteContent ==
    /\ pc = "write_content"
    /\ LET content == Content(CommonPart(written[Len(written)].desc).content_size)
       IN Call("write", content,
               [f |-> FWrite(f, pos, content), pos |-> pos + Len(content), ret |-> Ok(None)])
    /\ pc' = "write_padding"
    /\ UNCHANGED <<header, rheader, rdesc, written, ridx>>

WritePadding ==
    /\ pc = "write_padding"
    /\ LET r == write_padding(f, pos, header)
       IN /\ Call("write_padding", header, r)
          /\ written' = [written EXCEPT ![Len(written)].pad = pos,
                                         ![Len(written)].next = r.pos]
    /\ pc' = "write_desc"
    /\ UNCHANGED <<header, rheader, rdesc, ridx>>

\* fileobj.seek(0)
Rewind ==
    /\ pc = "write_desc"
    /\ Len(written) = header.resource_count
    /\ Call("seek", 0, [f |-> f, pos |-> 0, ret |-> Ok(None)])
    /\ pc' = "read_header"
    /\ UNCHANGED <<header, rheader, rdesc, written, ridx>>

ReadHeader ==
    /\ pc = "read_header"
    /\ LET r == read_header(f, pos, DEFAULT_VERSION)
       IN /\ Call("read_header", DEFAULT_VERSION, r)
          /\ rheader' = IF r.ret.ok THEN r.ret.val ELSE rheader
          /\ pc' = IF r.ret.ok THEN "read_desc" ELSE "failed"
    /\ UNCHANGED <<header, rdesc, written, ridx>>

ReadCommonResourceDescriptor ==
    /\ pc = "read_desc"
    /\ ridx < rheader.resource_count
    /\ LET r == read_common_resource_descriptor(f, pos)
       IN /\ Call("read_common_resource_descriptor", None, r)
          /\ rdesc' = IF r.ret.ok THEN r.ret.val ELSE rdesc
          /\ pc' = IF r.ret.ok THEN "skip_resource" ELSE "failed"
    /\ UNCHANGED <<header, rheader, written, ridx>>

SkipResource ==
    /\ pc = "skip_resource"
    /\ Call("skip_resource", rdesc, skip_resource(f, pos, rdesc, rheader))
    /\ ridx' = ridx + 1
    /\ pc' = "read_desc"
    /\ UNCHANGED <<header, rheader, rdesc, written>>

ReadCompositeDescriptor ==
    /\ pc = "read_desc"
    /\ ridx < rheader.resource_count
    /\ LET r == read_composite_descriptor(f, pos)
       IN /\ Call("read_composite_descriptor", None, r)
          /\ rdesc' = IF r.ret.ok THEN r.ret.val ELSE rdesc
          /\ pc' = IF r.ret.ok THEN "seek_content" ELSE "failed"
    /\ UNCHANGED <<header, rheader, written, ridx>>

\* fileobj.seek(content_size, io.SEEK_CUR)
SeekContent ==
    /\ pc = "seek_content"
    /\ LET n == CommonPart(rdesc).content_size
       IN Call("seek", n, [f |-> f, pos |-> pos + n, ret |-> Ok(None)])
    /\ pc' = "skip_padding"
    /\ UNCHANGED <<header, rheader, rdesc, written, ridx>>

SkipPadding ==
    /\ pc = "skip_padding"
    /\ Call("skip_padding", rheader, skip_padding(f, pos, rheader))
    /\ ridx' = ridx + 1
    /\ pc' = "read_desc"
    /\ UNCHANGED <<header, rheader, rdesc, written>>

Next ==
    \/ WriteHeader
    \/ WriteCompositeResourceDescriptor
    \/ WriteContent
    \/ WritePadding
    \/ Rewind
    \/ ReadHeader
    \/ ReadCommonResourceDescriptor
    \/ SkipResource
    \/ ReadCompositeDescriptor
    \/ SeekContent
    \/ SkipPadding

Spec == Init /\ [][Next]_vars

----------------------------------------------------------------------------
(* Properties of the container scenario (Spec). *)

\* the resource the reader is at, or has just passed over with a skip
Current == written[IF lastop \in {"skip_resource", "skip_padding"} THEN ridx ELSE ridx + 1]

\* R is a custom descriptor: a common descriptor whose type is neither Blob nor
\* Texture, followed by exactly extension_size bytes
IsCustomRaw(R) ==
    /\ Len(R) >= COMMON_DESCRIPTOR_SIZE
    /\ LET c == deserialize_common_resource_descriptor(R).val
       IN c.type \notin {BLOB, TEXTURE} /\ Len(R) = COMMON_DESCRIPTOR_SIZE + c.extension_size

\* C1: a custom descriptor R (type code neither Blob nor Texture, exactly
\* extension_size extension bytes) is written unchanged by
\* write_composite_resource_descriptor, and read_composite_descriptor with the
\* cursor at the start of R returns bytes equal to R.
C1_UnknownTypePassthrough ==
    /\ (lastop = "write_composite_resource_descriptor" /\ IsBytes(arg) /\ IsCustomRaw(arg.bytes))
         => /\ ret.ok
            /\ pos = pos0 + Len(arg.bytes)
            /\ SubSeq(f, pos0 + 1, pos) = arg.bytes
            /\ SubSeq(f, 1, pos0) = f0
    /\ (lastop = "read_composite_descriptor" /\ IsBytes(Current.desc)
        /\ IsCustomRaw(Current.desc.bytes) /\ pos0 = Current.start)
         => /\ ret.ok
            /\ IsBytes(ret.val)
            /\ ret.val.bytes = Current.desc.bytes

C1_Witness ==
    /\ lastop = "read_composite_descriptor"
    /\ IsBytes(Current.desc)
    /\ IsCustomRaw(Current.desc.bytes)
    /\ pos0 = Current.start
    /\ Len(Current.desc.bytes) > COMMON_DESCRIPTOR_SIZE
    /\ ridx = 1

\* C2: after read_header and read_common_resource_descriptor of resource i,
\* skip_resource leaves the cursor at the first byte of the common descriptor
\* of resource i+1 (the end of the container after the last resource), with
\* UNPADDED set and unset.
C2_SkipResourceReachesNext ==
    (lastop = "skip_resource" /\ pos0 = written[ridx].start + COMMON_DESCRIPTOR_SIZE)
      => /\ pos = written[ridx].next
         /\ ridx < Len(written) => pos = written[ridx + 1].start

C2_Witness ==
    /\ lastop = "skip_resource"
    /\ ridx = 1
    /\ Len(written) = 2
    /\ header.flags = 0
    /\ pos0 = written[1].start + COMMON_DESCRIPTOR_SIZE
    /\ pos = written[2].start
    /\ pos > pos0 + CommonPart(written[1].desc).extension_size
                  + CommonPart(written[1].desc).content_size

\* the smallest multiple of 8 that is >= p
NextMultipleOf8(p) == CHOOSE m \in p..(p + 7) : m % 8 = 0

\* C3: from the same position p and with the same header, write_padding and
\* skip_padding leave the cursor at the same position: the smallest multiple
\* of 8 >= p when UNPADDED is unset (write_padding writing only zero bytes,
\* fewer than 8), and p when UNPADDED is set (nothing written, nothing skipped).
C3_PaddingAgrees ==
    /\ lastop = "write_padding"
         => /\ pos = (IF arg.flags = UNPADDED THEN pos0 ELSE NextMultipleOf8(pos0))
            /\ pos - pos0 < 8
            /\ arg.flags = UNPADDED => f = f0
            /\ SubSeq(f, 1, pos0) = SubSeq(f0, 1, pos0)
            /\ \A i \in (pos0 + 1)..pos : f[i] = 0
            /\ Len(f) = IF pos > Len(f0) THEN pos ELSE Len(f0)
    /\ lastop = "skip_padding"
         => /\ pos = (IF arg.flags = UNPADDED THEN pos0 ELSE NextMultipleOf8(pos0))
            /\ f = f0
            /\ (pos0 = Current.pad /\ arg = header) => pos = Current.next

C3_Witness ==
    /\ lastop = "skip_padding"
    /\ arg.flags = 0
    /\ pos0 = Current.pad
    /\ arg = header
    /\ pos > pos0
    /\ pos = Current.next

C3_WitnessUnpadded ==
    /\ lastop = "skip_padding"
    /\ arg.flags = UNPADDED
    /\ pos0 = Current.pad
    /\ pos0 % 8 # 0

----------------------------------------------------------------------------
(* gcf/__init__.py: the Header class *)

RECURSIVE Decimal(_)
\* str(n) for n >= 0, as character codes
Decimal(n) == IF n < 10 THEN <<48 + n>> ELSE Decimal(n \div 10) \o <<48 + (n % 10)>>

\* f"{_GCF_MAGIC_PREFIX}{version_number:02d}", as character codes
make_valid_version(version_number) ==
    MAGIC_PREFIX \o (IF version_number < 0 THEN <<45>> \o Decimal(0 - version_number)
                     ELSE IF version_number < 10 THEN <<48>> \o Decimal(version_number)
                     ELSE Decimal(version_number))

\* Header(resource_count, flags, version); flags is kept as the bit mask of the set
Header_init(resource_count, flags, version) ==
    [resource_count |-> resource_count,
     version |-> IF version = 0 THEN DEFAULT_VERSION ELSE version,
     flags |-> flags]

Header_from_bytes(raw, valid_version) ==
    IF Len(raw) # HEADER_SIZE THEN Err
    ELSE LET magic == SubSeq(raw, 1, 4)
             resource_count == UnpackH(SubSeq(raw, 5, 6))
             raw_flags == UnpackH(SubSeq(raw, 7, 8))
             valid_magic == make_valid_version(valid_version)
         IN IF magic # valid_magic THEN Err
            ELSE Ok(Header_init(resource_count, BitAnd(UNPADDED, raw_flags), valid_version))

Header_from_file(s, p, valid_version) ==
    [f |-> s, pos |-> FReadPos(s, p, HEADER_SIZE),
     ret |-> Header_from_bytes(FRead(s, p, HEADER_SIZE), valid_version)]

----------------------------------------------------------------------------
(* The header scenario: a header is serialized and deserialized, written   *)
(* to a file and read back expecting some version.                         *)

\* the versions headers are written for and reads expect
Versions == {-1, 0, 3, 30, 88, 99}

ExpectedVersions == Versions \cup {100}

HeaderInputs ==
    {[magic |-> m, resource_count |-> n, flags |-> fl] :
        m \in {make_magic_number(v).val : v \in Versions} \cup {0, 2147483647},
        n \in {0, 5, 255, 256, 65535, 65536},
        fl \in {0, UNPADDED}}

InitHeader ==
    /\ f = <<>>
    /\ pos = 0
    /\ header \in HeaderInputs
    /\ rheader = None
    /\ rdesc = None
    /\ pc = "write_header"
    /\ written = <<>>
    /\ lastop = "init"
    /\ pos0 = 0
    /\ f0 = <<>>
    /\ arg = None
    /\ ret = None
    /\ ridx = 0

\* a pure call: the file object is not touched
Pure(op, a, r) ==
    /\ lastop' = op
    /\ arg' = a
    /\ ret' = r
    /\ UNCHANGED <<f, pos, pos0, f0, header, rheader, rdesc, pc, written, ridx>>

\* deserialize_header(serialize_header(header))
RoundTripHeader ==
    /\ pc = "write_header"
    /\ LET raw == serialize_header(header)
       IN Pure("deserialize_header", header,
               [raw |-> raw, back |-> IF raw.ok THEN deserialize_header(raw.val) ELSE Err])

RewindHeader ==
    /\ pc = "write_desc"
    /\ written = <<>>
    /\ Call("seek", 0, [f |-> f, pos |-> 0, ret |-> Ok(None)])
    /\ pc' = "read_any"
    /\ UNCHANGED <<header, rheader, rdesc, written, ridx>>

ReadHeaderExpecting ==
    /\ pc = "read_any"
    /\ \E v \in ExpectedVersions :
         LET r == read_header(f, pos, v)
         IN /\ Call("read_header", v, r)
            /\ rheader' = IF r.ret.ok THEN r.ret.val ELSE rheader
    /\ pc' = "read_done"
    /\ UNCHANGED <<header, rdesc, written, ridx>>

HeaderFromFile ==
    /\ pc = "read_any"
    /\ \E v \in ExpectedVersions :
         LET r == Header_from_file(f, pos, v)
         IN /\ Call("Header.from_file", v, r)
            /\ rheader' = IF r.ret.ok THEN r.ret.val ELSE rheader
    /\ pc' = "read_done"
    /\ UNCHANGED <<header, rdesc, written, ridx>>

NextHeader ==
    \/ RoundTripHeader
    \/ WriteHeader
    \/ RewindHeader
    \/ ReadHeaderExpecting
    \/ HeaderFromFile

SpecHeader == InitHeader /\ [][NextHeader]_vars

ValidHeader(h) == IsU32(h.magic) /\ IsU16(h.resource_count) /\ h.flags \in {0, UNPADDED}

\* C4: for every header H with magic a u32, resource_count a u16 and flags
\* empty or UNPADDED, serialize_header(H) is 8 bytes and
\* deserialize_header(serialize_header(H)) = H; write_header followed by
\* read_header returns H when the magic is that of the expected version.
C4_HeaderRoundTrip ==
    /\ (lastop = "deserialize_header" /\ ValidHeader(arg))
         => /\ ret.raw.ok
            /\ Len(ret.raw.val) = 8
            /\ ret.back.ok
            /\ ret.back.val = arg
    /\ (lastop = "read_header" /\ ValidHeader(header)
        /\ make_magic_number(arg).ok /\ make_magic_number(arg).val = header.magic)
         => /\ ret.ok
            /\ ret.val = header

C4_Witness ==
    /\ lastop = "read_header"
    /\ ValidHeader(header)
    /\ make_magic_number(arg).ok
    /\ make_magic_number(arg).val = header.magic
    /\ header.flags = UNPADDED
    /\ header.resource_count = 256
    /\ ret.ok

C4_WitnessPure ==
    /\ lastop = "deserialize_header"
    /\ ValidHeader(arg)
    /\ arg.resource_count = 65535
    /\ arg.flags = UNPADDED
    /\ ret.back.ok

\* C5: reading a header with an expected version fails whenever the decoded
\* magic differs from the magic of the expected version and returns the
\* header only when they are equal; a header written for version v is
\* rejected by every read that expects another version.
C5_VersionMismatchRejected ==
    /\ lastop = "read_header"
         => /\ (~make_magic_number(arg).ok \/ make_magic_number(arg).val # header.magic)
                 => ~ret.ok
            /\ ret.ok => ret.val.magic = make_magic_number(arg).val /\ ret.val = header
            /\ \A v \in Versions :
                 (header.magic = make_magic_number(v).val /\ arg # v) => ~ret.ok
    /\ lastop = "Header.from_file"
         => /\ PackI(header.magic) # make_valid_version(arg) => ~ret.ok
            /\ ret.ok => /\ PackI(header.magic) = make_valid_version(arg)
                         /\ ret.val.resource_count = header.resource_count
                         /\ ret.val.flags = header.flags
            /\ \A v \in Versions :
                 (header.magic = make_magic_number(v).val /\ arg # v) => ~ret.ok

C5_Witness ==
    /\ lastop = "read_header"
    /\ header.magic = make_magic_number(99).val
    /\ arg = 88
    /\ ~ret.ok
    /\ Len(f) = HEADER_SIZE

C5_WitnessFromFile ==
    /\ lastop = "Header.from_file"
    /\ header.magic = make_magic_number(99).val
    /\ arg = 88
    /\ ~ret.ok
    /\ Len(f) = HEADER_SIZE

C5_WitnessAccepted ==
    /\ lastop = "read_header"
    /\ arg = 99
    /\ ret.ok

----------------------------------------------------------------------------
(* gcf/__init__.py: the ResourceDescriptor class; gcf/blob.py: the          *)
(* BlobResourceDescriptor class.  An object is the record of its           *)
(* attributes; cls names its class.  A call is modelled with its           *)
(* positional arguments (a tuple) and its keyword arguments (a record), so *)
(* that binding them to the parameters can fail, as it does in Python.     *)

\* the values of the ResourceType enum that TLC's integers can hold
\* (TEST = 0xFFFFFFFF is beyond them)
ResourceTypes == {BLOB, TEXTURE}

\* the values of the SupercompressionScheme enum
SupercompressionSchemes == {NO_COMPRESSION, ZLIB, DEFLATE, TEST_SCHEME}

deserialize_common_descriptor(raw) ==
    IF Len(raw) # COMMON_DESCRIPTOR_SIZE THEN Err
    ELSE LET t == UnpackI(SubSeq(raw, 1, 4))
             scheme == UnpackH(SubSeq(raw, 15, 16))
         IN IF t \notin ResourceTypes \/ scheme \notin SupercompressionSchemes THEN Err
            ELSE Ok([resource_type |-> t,
                     resource_format |-> UnpackI(SubSeq(raw, 5, 8)),
                     content_size |-> UnpackI(SubSeq(raw, 9, 12)),
                     extended_descriptor_size |-> UnpackH(SubSeq(raw, 13, 14)),
                     supercompression_scheme |-> scheme])

\* ResourceDescriptor.__init__(self, resource_type, resource_format, size, /,
\*     header, supercompression_scheme=NO_COMPRESSION, extended_descriptor=None):
\* the first three parameters are positional-only
ResourceDescriptor_init(args, kwargs) ==
    IF Len(args) # 3 THEN Err
    ELSE IF ~(DOMAIN kwargs \subseteq {"header", "supercompression_scheme",
                                      "extended_descriptor"})
    THEN Err
    ELSE IF "header" \notin DOMAIN kwargs THEN Err
    ELSE Ok([cls |-> "ResourceDescriptor",
             resource_type |-> args[1],
             format |-> args[2],
             size |-> args[3],
             supercompression_scheme |->
                 IF "supercompression_scheme" \in DOMAIN kwargs
                 THEN kwargs.supercompression_scheme ELSE NO_COMPRESSION,
             header |-> kwargs.header,
             extended |-> IF "extended_descriptor" \in DOMAIN kwargs
                          THEN kwargs.extended_descriptor ELSE <<>>])

\* BlobResourceDescriptor.__init__(self, size, /, header, uncompressed_size,
\*     supercompression_scheme)
BlobResourceDescriptor_init(size, hdr, uncompressed_size, supercompression_scheme) ==
    LET base == ResourceDescriptor_init(
                    <<BLOB, UNDEFINED, size>>,
                    [header |-> hdr, supercompression_scheme |-> supercompression_scheme,
                     extended_descriptor |-> PackQ(0) \o PackQ(0)])
    IN IF ~base.ok THEN Err
       ELSE Ok([cls |-> "BlobResourceDescriptor",
                resource_type |-> base.val.resource_type,
                format |-> base.val.format,
                size |-> base.val.size,
                supercompression_scheme |-> base.val.supercompression_scheme,
                header |-> base.val.header,
                extended |-> base.val.extended,
                uncompressed_size |-> uncompressed_size])

\* the extended_descriptor property, which BlobResourceDescriptor overrides
extended_descriptor(self) ==
    IF self.cls = "BlobResourceDescriptor"
    THEN IF IsU64(self.uncompressed_size) THEN Ok(PackQ(self.uncompressed_size) \o PackQ(0))
         ELSE Err
    ELSE Ok(self.extended)

extended_descriptor_size(self) == Len(self.extended)

ResourceDescriptor_serialize(self) ==
    IF IsU32(self.resource_type) /\ IsU32(self.format) /\ IsU32(self.size)
       /\ IsU16(extended_descriptor_size(self)) /\ IsU16(self.supercompression_scheme)
       /\ extended_descriptor(self).ok
    THEN Ok(PackI(self.resource_type) \o PackI(self.format) \o PackI(self.size)
            \o PackH(extended_descriptor_size(self)) \o PackH(self.supercompression_scheme)
            \o extended_descriptor(self).val)
    ELSE Err

\* the keyword arguments of cls(**fields, extended_descriptor=..., header=...)
FieldsKwargs(fields, extended, hdr) ==
    [resource_type |-> fields.resource_type,
     resource_format |-> fields.resource_format,
     content_size |-> fields.content_size,
     extended_descriptor_size |-> fields.extended_descriptor_size,
     supercompression_scheme |-> fields.supercompression_scheme,
     extended_descriptor |-> extended,
     header |-> hdr]

\* ResourceDescriptor.from_bytes(raw, raw_extended, header), called with the
\* positional arguments args
ResourceDescriptor_from_bytes(args) ==
    IF Len(args) # 3 THEN Err
    ELSE LET fields == deserialize_common_descriptor(args[1])
         IN IF ~fields.ok THEN Err
            ELSE IF Len(args[2]) # fields.val.extended_descriptor_size THEN Err
            ELSE ResourceDescriptor_init(<<>>, FieldsKwargs(fields.val, args[2], args[3]))

ResourceDescriptor_from_file(s, p, hdr) ==
    LET raw_descriptor == FRead(s, p, COMMON_DESCRIPTOR_SIZE)
        p2 == FReadPos(s, p, COMMON_DESCRIPTOR_SIZE)
        fields == deserialize_common_descriptor(raw_descriptor)
    IN IF ~fields.ok THEN [f |-> s, pos |-> p2, ret |-> Err]
       ELSE LET n == fields.val.extended_descriptor_size
                extended == FRead(s, p2, n)
            IN [f |-> s, pos |-> FReadPos(s, p2, n),
                ret |-> ResourceDescriptor_init(<<>>, FieldsKwargs(fields.val, extended, hdr))]

BlobResourceDescriptor_from_resource_descriptor(descriptor, raw_extended_descriptor) ==
    IF Len(raw_extended_descriptor) # BLOB_EXTENDED_DESCRIPTOR_SIZE THEN Err
    ELSE BlobResourceDescriptor_init(descriptor.size, descriptor.header,
                                     UnpackQ(SubSeq(raw_extended_descriptor, 1, 8)),
                                     descriptor.supercompression_scheme)

BlobResourceDescriptor_from_bytes(raw, hdr) ==
    LET common_descriptor == ResourceDescriptor_from_bytes(<<raw, hdr>>)
    IN IF ~common_descriptor.ok THEN Err
       ELSE BlobResourceDescriptor_from_resource_descriptor(
                common_descriptor.val,
                Slice(raw, COMMON_DESCRIPTOR_SIZE,
                      COMMON_DESCRIPTOR_SIZE + BLOB_EXTENDED_DESCRIPTOR_SIZE))

BlobResourceDescriptor_from_file(s, p, hdr) ==
    LET common_descriptor == ResourceDescriptor_from_file(s, p, hdr)
    IN IF ~common_descriptor.ret.ok THEN common_descriptor
       ELSE [f |-> s, pos |-> FReadPos(s, common_descriptor.pos, BLOB_EXTENDED_DESCRIPTOR_SIZE),
             ret |-> BlobResourceDescriptor_from_resource_descriptor(
                         common_descriptor.ret.val,
                         FRead(s, common_descriptor.pos, BLOB_EXTENDED_DESCRIPTOR_SIZE))]

\* Header.is_gcf_file_unpadded
is_gcf_file_unpadded(h) == BitAnd(h.flags, UNPADDED) # 0

\* Resource.serialize that leaves descriptor.size as it was constructed
Resource_serialize_size_as_constructed(descriptor, content_data) ==
    LET raw == ResourceDescriptor_serialize(descriptor)
    IN IF ~raw.ok THEN Err
       ELSE LET raw_data == raw.val \o content_data
                padding_size == IF ~is_gcf_file_unpadded(descriptor.header)
                                THEN align_size(Len(raw_data), 8).val - Len(raw_data)
                                ELSE 0
            IN Ok([raw |-> raw_data \o Zeros(padding_size), descriptor |-> descriptor])

\* Resource.serialize of a resource with the given descriptor and
\* content_data; descriptor is the resource's descriptor after the call
Resource_serialize(descriptor, content_data) ==
    LET d == [descriptor EXCEPT !.size = Len(content_data)]
        raw == ResourceDescriptor_serialize(d)
    IN IF ~raw.ok THEN Err
       ELSE LET raw_data == raw.val \o content_data
                raw_data_size == Len(raw_data)
                padding_size == IF ~is_gcf_file_unpadded(d.header)
                                THEN align_size(raw_data_size, 8).val - raw_data_size
                                ELSE 0
            IN Ok([raw |-> raw_data \o Zeros(padding_size), descriptor |-> d])

\* gcf/resource_format.py: FORMAT_SIZE_TABLE, the pixel size of the formats
\* R8_UINT (13), R8G8B8_UINT (27) and R8G8B8A8_UINT (41); UNDEFINED has none
FORMAT_SIZE_TABLE == (13 :> 1) @@ (27 :> 3) @@ (41 :> 4)

\* 2 ** n
Pow2(n) == IF n = 0 THEN 1 ELSE IF n = 1 THEN 2 ELSE IF n = 2 THEN 4 ELSE 8

\* gcf/util.py: scale_size of compute_mip_level_size,
\* round(max(1, base_size * 0.5 ** mip_level)), round going to the even
\* neighbour on a tie
scale_size(base_size, mip_level) ==
    LET d == Pow2(mip_level)
        q == base_size \div d
        r == base_size % d
    IN IF base_size <= d THEN 1
       ELSE IF 2 * r < d THEN q
       ELSE IF 2 * r > d THEN q + 1
       ELSE IF q % 2 = 0 THEN q ELSE q + 1

compute_mip_level_size(mip_level, base_width, base_height, base_depth) ==
    <<scale_size(base_width, mip_level), scale_size(base_height, mip_level),
      scale_size(base_depth, mip_level)>>

\* row_stride or default; an optional stride is <<>> for None and <<n>> for n
OrDefault(stride, default) ==
    IF stride = <<>> THEN default ELSE IF stride[1] = 0 THEN default ELSE stride[1]

\* MipLevel.from_image_data without the check of the level size
MipLevel_from_image_data_unchecked(descriptor, data, level, row_stride, depth_stride, layer_stride) ==
    LET compressed_data == compress(data, descriptor.supercompression_scheme)
    IN IF ~compressed_data.ok THEN Err
       ELSE IF descriptor.format \notin DOMAIN FORMAT_SIZE_TABLE THEN Err
       ELSE LET pixel_size == FORMAT_SIZE_TABLE[descriptor.format]
                size == compute_mip_level_size(level, descriptor.width, descriptor.height,
                                               descriptor.depth)
                real_row_stride == OrDefault(row_stride, pixel_size * size[1])
                real_depth_stride == OrDefault(depth_stride, real_row_stride * size[2])
                real_layer_stride == OrDefault(layer_stride, real_depth_stride * size[3])
            IN Ok([descriptor |-> [compressed_size |-> Len(compressed_data.val),
                                   uncompressed_size |-> Len(data),
                                   row_stride |-> real_row_stride,
                                   depth_stride |-> real_depth_stride,
                                   layer_stride |-> real_layer_stride],
                   data |-> compressed_data.val])

\* gcf/image.py: MipLevel.from_image_data(descriptor, data, level, row_stride,
\* depth_stride, layer_stride); data is data.flatten().tobytes()
MipLevel_from_image_data(descriptor, data, level, row_stride, depth_stride, layer_stride) ==
    LET compressed_data == compress(data, descriptor.supercompression_scheme)
    IN IF ~compressed_data.ok THEN Err
       ELSE IF descriptor.format \notin DOMAIN FORMAT_SIZE_TABLE THEN Err
       ELSE LET pixel_size == FORMAT_SIZE_TABLE[descriptor.format]
                size == compute_mip_level_size(level, descriptor.width, descriptor.height,
                                               descriptor.depth)
                real_row_stride == OrDefault(row_stride, pixel_size * size[1])
                real_depth_stride == OrDefault(depth_stride, real_row_stride * size[2])
                real_layer_stride == OrDefault(layer_stride, real_depth_stride * size[3])
                expected_level_size == real_layer_stride * descriptor.layer_count
            IN IF expected_level_size # Len(data) THEN Err
               ELSE Ok([descriptor |-> [compressed_size |-> Len(compressed_data.val),
                                        uncompressed_size |-> Len(data),
                                        row_stride |-> real_row_stride,
                                        depth_stride |-> real_depth_stride,
                                        layer_stride |-> real_layer_stride],
                        data |-> compressed_data.val])

RECURSIVE skip_resources(_, _, _, _)
\* gcf/util.py: skip_resources(fileobj, num_to_skip, header)
skip_resources(s, p, num_to_skip, hdr) ==
    IF num_to_skip <= 0 THEN [f |-> s, pos |-> p, ret |-> Ok(None)]
    ELSE LET descriptor == ResourceDescriptor_from_file(s, p, hdr)
         IN IF ~descriptor.ret.ok THEN descriptor
            ELSE skip_resources(s, descriptor.pos + descriptor.ret.val.size,
                                num_to_skip - 1, hdr)

----------------------------------------------------------------------------
(* gcf/image.py: ImageResourceDescriptor, and gcf/decode.py.  An object is  *)
(* a record; reading an attribute the object does not have, or a member an  *)
(* enum does not have, raises AttributeError.                               *)

IMAGE_1D == 1
IMAGE_2D == 3
IMAGE_3D == 7

\* the member names of the ResourceType enum of gcf/__init__.py
ResourceTypeNames == {"BLOB", "TEXTURE", "TEST"}

\* the class attributes of ImageResourceDescriptor
ImageClassAttributes == {"TYPE_INFO_FORMAT", "TYPE_INFO_FORMAT_SIZE"}

\* ImageResourceDescriptor.__init__(self, resource_format, size, /, header, width,
\*     height, depth, layer_count, mip_level_count, supercompression_scheme, flags);
\* flags is a collection of ImageFlags members
ImageResourceDescriptor_init(resource_format, size, hdr, width, height, depth, layer_count, mip_level_count, supercompression_scheme, flags) ==
    IF "IMAGE" \notin ResourceTypeNames THEN Err
    ELSE IF "TYPE_INFO_CUSTOM" \notin ImageClassAttributes THEN Err
    ELSE LET base == ResourceDescriptor_init(
                         <<TEXTURE, resource_format, size>>,
                         [header |-> hdr, supercompression_scheme |-> supercompression_scheme,
                          type_info |-> <<>>])
         IN IF ~base.ok THEN Err
            ELSE IF Cardinality({IMAGE_1D, IMAGE_2D, IMAGE_3D} \cap flags) # 1 THEN Err
            ELSE Ok([cls |-> "ImageResourceDescriptor",
                     resource_type |-> base.val.resource_type,
                     format |-> base.val.format,
                     size |-> base.val.size,
                     supercompression_scheme |-> base.val.supercompression_scheme,
                     header |-> base.val.header,
                     extended |-> base.val.extended,
                     flags |-> flags,
                     width |-> width,
                     height |-> IF IMAGE_1D \notin flags THEN height ELSE 1,
                     depth |-> IF IMAGE_3D \in flags THEN depth ELSE 1,
                     layer_count |-> layer_count,
                     mip_level_count |-> mip_level_count])

\* _decode_flags that scans 1D, 2D, 3D in that order
decode_flags_1d_first(raw_flags) ==
    IF BitAnd(raw_flags, IMAGE_1D) = IMAGE_1D THEN {IMAGE_1D}
    ELSE IF BitAnd(raw_flags, IMAGE_2D) = IMAGE_2D THEN {IMAGE_2D}
    ELSE IF BitAnd(raw_flags, IMAGE_3D) = IMAGE_3D THEN {IMAGE_3D}
    ELSE {}

\* ImageResourceDescriptor._decode_flags
decode_flags(raw_flags) ==
    IF BitAnd(raw_flags, IMAGE_3D) = IMAGE_3D THEN {IMAGE_3D}
    ELSE IF BitAnd(raw_flags, IMAGE_2D) = IMAGE_2D THEN {IMAGE_2D}
    ELSE IF BitAnd(raw_flags, IMAGE_1D) = IMAGE_1D THEN {IMAGE_1D}
    ELSE {}

\* ImageResourceDescriptor.from_resource_descriptor(descriptor)
ImageResourceDescriptor_from_resource_descriptor(descriptor) ==
    IF "type_info" \notin DOMAIN descriptor THEN Err
    ELSE IF Len(descriptor.type_info) # 16 THEN Err
    ELSE LET raw == descriptor.type_info
         IN ImageResourceDescriptor_init(
                descriptor.format, descriptor.size, descriptor.header,
                UnpackH(SubSeq(raw, 1, 2)), UnpackH(SubSeq(raw, 3, 4)),
                UnpackH(SubSeq(raw, 5, 6)), UnpackB(SubSeq(raw, 7, 7)),
                UnpackB(SubSeq(raw, 8, 8)), descriptor.supercompression_scheme,
                decode_flags(UnpackH(SubSeq(raw, 9, 10))))

\* BlobResourceDescriptor.from_resource_descriptor(descriptor,
\* raw_extended_descriptor), called with the positional arguments args
BlobResourceDescriptor_from_resource_descriptor_call(args) ==
    IF Len(args) # 2 THEN Err
    ELSE BlobResourceDescriptor_from_resource_descriptor(args[1], args[2])

\* decode_resource_descriptor that hands every descriptor back as it is
decode_resource_descriptor_generic(descriptor) == Ok(descriptor)

\* gcf/decode.py
decode_resource_descriptor(descriptor) ==
    IF descriptor.resource_type = TEXTURE
    THEN ImageResourceDescriptor_from_resource_descriptor(descriptor)
    ELSE IF descriptor.resource_type = BLOB
    THEN BlobResourceDescriptor_from_resource_descriptor_call(<<descriptor>>)
    ELSE Ok(descriptor)

----------------------------------------------------------------------------
(* The codec scenario: the pure serializers and deserializers applied to   *)
(* inputs drawn from bounded sets.                                         *)

\* the largest number of layers of a mip level
MaxLayers == 2
\* the largest length of a layer buffer
MaxLayerLen == 2

\* u32 and u16 sample values
SampleU32 == {0, 1, 65536, 2147483647}
SampleU16 == {0, 16, 65535}

CommonInputs ==
    {[type |-> t, format |-> fm, content_size |-> c, extension_size |-> e,
      supercompression_scheme |-> sc] :
        t \in {BLOB, TEXTURE, 2, 2147483647}, fm \in {UNDEFINED, 29, 2147483647},
        c \in SampleU32, e \in SampleU16 \cup {65536},
        sc \in {NO_COMPRESSION, ZLIB, DEFLATE, 7, TEST_SCHEME}}

TextureInputs ==
    {make_texture_resource_descriptor(29, c, sc, w, h, d, lc, mc, g, fl) :
        c \in {0, 123}, sc \in {NO_COMPRESSION, TEST_SCHEME}, w \in {1, 100, 65535},
        h \in {1, 65535}, d \in {1, 3}, lc \in {0, 1, 5, 255, 256}, mc \in {1, 2, 255, 256},
        g \in {0, 99, 2147483647}, fl \in {TEXTURE_1D, TEXTURE_2D, TEXTURE_3D}}

MipLevelInputs ==
    {[compressed_size |-> a, uncompressed_size |-> b, row_stride |-> c,
      slice_stride |-> d, layer_stride |-> e] :
        a \in {0, 123, 2147483647}, b \in {0, 345, 2147483647}, c \in {6, 2147483647},
        d \in {7, 65536}, e \in {5, 2147483647}}

BlobInputs ==
    {<<c, u, sc>> : c \in {0, 8, 2147483647}, u \in {0, 128, 2147483647},
                    sc \in SupercompressionSchemes}

\* the byte values of layer data
LayerBytes == {97, 255}

Buffers == UNION {[1..n -> LayerBytes] : n \in 0..MaxLayerLen}

LayerLists == UNION {[1..n -> Buffers] : n \in 1..MaxLayers}

\* the Header object the descriptors of the codec scenario belong to
CodecHeader == Header_init(2, 0, DEFAULT_VERSION)

\* generic descriptors: an image, a blob and one of an unregistered type
GenericDescriptors ==
    {ResourceDescriptor_init(<<t, fm, 8>>, [header |-> CodecHeader,
                                            extended_descriptor |-> e]).val :
        t \in ResourceTypes \cup CustomTypes, fm \in {UNDEFINED, 29},
        e \in {PackQ(2) \o PackQ(0),
               PackH(2) \o PackH(1) \o PackH(1) \o PackB(1) \o PackB(1) \o PackH(IMAGE_2D)
                 \o PackI(0) \o PackH(0)}}

InitCodec ==
    /\ f = <<>>
    /\ pos = 0
    /\ header = [magic |-> make_magic_number(DEFAULT_VERSION).val, resource_count |-> 0,
                 flags |-> 0]
    /\ rheader = None
    /\ rdesc = None
    /\ pc = "codec"
    /\ written = <<>>
    /\ lastop = "init"
    /\ pos0 = 0
    /\ f0 = <<>>
    /\ arg = None
    /\ ret = None
    /\ ridx = 0

\* one call of a pure function on one input, after which the scenario is over
Call1(op, a, r) ==
    /\ lastop' = op
    /\ arg' = a
    /\ ret' = r
    /\ pc' = "returned"
    /\ UNCHANGED <<f, pos, pos0, f0, header, rheader, rdesc, written, ridx>>

\* deserialize_common_resource_descriptor(serialize_common_resource_descriptor(d))
RoundTripCommon ==
    /\ pc = "codec"
    /\ \E d \in CommonInputs :
         LET raw == serialize_common_resource_descriptor(d)
         IN Call1("deserialize_common_resource_descriptor", d,
                 [raw |-> raw,
                  back |-> IF raw.ok THEN deserialize_common_resource_descriptor(raw.val)
                           ELSE Err])

\* deserialize_texture_resource_descriptor(serialize_texture_resource_descriptor(d))
RoundTripTexture ==
    /\ pc = "codec"
    /\ \E d \in TextureInputs :
         LET raw == serialize_texture_resource_descriptor(d)
         IN Call1("deserialize_texture_resource_descriptor", d,
                 [raw |-> raw,
                  back |-> IF raw.ok
                           THEN deserialize_texture_resource_descriptor(raw.val, None)
                           ELSE Err])

\* deserialize_mip_level_descriptor(serialize_mip_level_descriptor(d))
RoundTripMipLevelDescriptor ==
    /\ pc = "codec"
    /\ \E d \in MipLevelInputs :
         LET raw == serialize_mip_level_descriptor(d)
         IN Call1("deserialize_mip_level_descriptor", d,
                 [raw |-> raw,
                  back |-> IF raw.ok THEN deserialize_mip_level_descriptor(raw.val) ELSE Err])

\* deserialize_mip_level_data(serialize_mip_level_data(layers, scheme), descriptor)
RoundTripMipLevelData ==
    /\ pc = "codec"
    /\ \E layers \in LayerLists, sc \in Registered \cup {7}, lc \in 0..MaxLayers :
         LET raw == serialize_mip_level_data(layers, sc)
             d == make_texture_resource_descriptor(13, 123, sc, 4, 1, 1, lc, 1, 66, TEXTURE_1D)
         IN Call1("deserialize_mip_level_data",
                 [layers |-> layers, supercompression_scheme |-> sc, layer_count |-> lc],
                 [raw |-> raw,
                  back |-> IF raw.ok THEN deserialize_mip_level_data(raw.val, d) ELSE Err])

\* a BlobResourceDescriptor is built, serialized and read back with from_bytes
\* and with from_file
RoundTripBlob ==
    /\ pc = "codec"
    /\ \E i \in BlobInputs :
         LET d == BlobResourceDescriptor_init(i[1], CodecHeader, i[2], i[3]).val
             raw == ResourceDescriptor_serialize(d)
         IN Call1("BlobResourceDescriptor.from_bytes", d,
                 [raw |-> raw,
                  back |-> IF raw.ok THEN BlobResourceDescriptor_from_bytes(raw.val, CodecHeader)
                           ELSE Err,
                  back_file |-> IF raw.ok
                                THEN BlobResourceDescriptor_from_file(raw.val, 0, CodecHeader).ret
                                ELSE Err])

\* the versions make_magic_number is called with
MagicVersions == (-1..101) \cup {1000, 2147483647}

\* make_magic_number(version)
MakeMagicNumber ==
    /\ pc = "codec"
    /\ \E v \in MagicVersions : Call1("make_magic_number", v, make_magic_number(v))

\* one call of a reader on the stream s, rewound, whose outcome is the record r
CallOn(op, s, a, r) ==
    /\ lastop' = op
    /\ arg' = a
    /\ f0' = s
    /\ pos0' = 0
    /\ f' = r.f
    /\ pos' = r.pos
    /\ ret' = r.ret
    /\ pc' = "returned"
    /\ UNCHANGED <<header, rheader, rdesc, written, ridx>>

\* the composite descriptors a stream holds
StreamDescriptors ==
    BlobDescriptors(8) \cup TextureDescriptors(8) \cup CustomDescriptors(8)

\* read_header(fileobj) on a stream that holds the first n bytes of a header
ReadHeaderTruncated ==
    /\ pc = "codec"
    /\ \E n \in 0..HEADER_SIZE :
         LET full == write_header(<<>>, 0, header).f
             s == SubSeq(full, 1, n)
         IN CallOn("read_header_truncated", s, [declared |-> Len(full)],
                   read_header(s, 0, DEFAULT_VERSION))

\* read_common_resource_descriptor(fileobj) on the first n bytes of a descriptor
ReadCommonTruncated ==
    /\ pc = "codec"
    /\ \E d \in StreamDescriptors :
         LET full == write_common_resource_descriptor(<<>>, 0, CommonPart(d)).f
         IN \E n \in 0..Len(full) :
              LET s == SubSeq(full, 1, n)
              IN CallOn("read_common_resource_descriptor_truncated", s,
                        [declared |-> Len(full)], read_common_resource_descriptor(s, 0))

\* read_composite_descriptor(fileobj) on the first n bytes of a descriptor
ReadCompositeTruncated ==
    /\ pc = "codec"
    /\ \E d \in StreamDescriptors :
         LET full == write_composite_resource_descriptor(<<>>, 0, d).f
         IN \E n \in 0..Len(full) :
              LET s == SubSeq(full, 1, n)
              IN CallOn("read_composite_descriptor_truncated", s,
                        [declared |-> Len(full), type |-> CommonPart(d).type],
                        read_composite_descriptor(s, 0))

\* read_mip_level(fileobj, texture_descriptor) on the first n bytes of a mip level
ReadMipLevelTruncated ==
    /\ pc = "codec"
    /\ \E layers \in {<<(<<97, 98>>), (<<99, 100>>)>>, <<(<<97, 98, 99>>)>>},
          sc \in Registered :
         LET full == write_mip_level(<<>>, 0, sc,
                                     [compressed_size |-> 0, uncompressed_size |-> 0,
                                      row_stride |-> 6, slice_stride |-> 7,
                                      layer_stride |-> 5], layers).f
             d == make_texture_resource_descriptor(13, Len(full), sc, 4, 1, 1, Len(layers),
                                                   1, 66, TEXTURE_1D)
         IN \E n \in 0..Len(full) :
              LET s == SubSeq(full, 1, n)
              IN CallOn("read_mip_level_truncated", s,
                        [declared |-> Len(full), supercompression_scheme |-> sc,
                         layers |-> layers],
                        read_mip_level(s, 0, d))

\* write_mip_level(fileobj, scheme, mip_level_descriptor, layers) for a level
\* of a texture whose descriptor holds layer_count
WriteMipLevel ==
    /\ pc = "codec"
    /\ \E layers \in LayerLists, sc \in Registered \cup {7}, lc \in {1, 2},
          sizes \in {<<0, 0>>, <<5, 9>>} :
         LET mld == [compressed_size |-> sizes[1], uncompressed_size |-> sizes[2],
                     row_stride |-> 6, slice_stride |-> 7, layer_stride |-> 5]
             r == write_mip_level(<<>>, 0, sc, mld, layers)
         IN CallOn("write_mip_level", <<>>,
                   [layers |-> layers, supercompression_scheme |-> sc, layer_count |-> lc,
                    mip_level_descriptor |-> mld, after |-> r.descriptor], r)

\* the raw flags values _decode_flags is called with
RawFlags == (0..15) \cup {256, 259, 65535}

\* ImageResourceDescriptor._decode_flags(raw_flags)
DecodeFlags ==
    /\ pc = "codec"
    /\ \E raw_flags \in RawFlags :
         Call1("_decode_flags", raw_flags, Ok(decode_flags(raw_flags)))

\* the largest length of the content of a Resource
MaxResourceContent == 9

\* the descriptors of the resources that are serialized: generic ones with
\* any extension, and blob descriptors
ResourceDescriptors ==
    {ResourceDescriptor_init(<<t, UNDEFINED, sz>>,
                             [header |-> Header_init(2, fl, DEFAULT_VERSION),
                              extended_descriptor |-> CustomExtension(n)]).val :
        t \in {BLOB} \cup CustomTypes, sz \in {0, 16}, fl \in {0, UNPADDED}, n \in 0..MaxExt}
    \cup {BlobResourceDescriptor_init(sz, Header_init(2, fl, DEFAULT_VERSION), 128,
                                      NO_COMPRESSION).val : sz \in {0, 16}, fl \in {0, UNPADDED}}

\* Resource(descriptor).serialize() with content_data of any length
SerializeResource ==
    /\ pc = "codec"
    /\ \E d \in ResourceDescriptors, n \in 0..MaxResourceContent :
         Call1("Resource.serialize", [descriptor |-> d, content_data |-> Content(n)],
               Resource_serialize(d, Content(n)))

\* skip_resources(f, n, header) with the cursor at the first of two resources
\* serialized one after the other
SkipResources ==
    /\ pc = "codec"
    /\ \E d1 \in ResourceDescriptors, c1 \in {0, 3, 8}, c2 \in {0, 3}, n \in 0..2 :
         LET r1 == Resource_serialize(d1, Content(c1)).val.raw
             r2 == Resource_serialize([d1 EXCEPT !.resource_type = BLOB], Content(c2)).val.raw
             s == r1 \o r2
         IN CallOn("skip_resources", s,
                   [num_to_skip |-> n, starts |-> <<0, Len(r1), Len(r1) + Len(r2)>>,
                    header |-> d1.header],
                   skip_resources(s, 0, n, d1.header))

\* the largest length of the uncompressed data of a mip level
MaxImageData == 12

\* MipLevel.from_image_data(descriptor, data, level, ...) for an image of the
\* given format, size and layer count and data of any length
FromImageData ==
    /\ pc = "codec"
    /\ \E fm \in {UNDEFINED, 13, 27}, w \in {1, 3}, h \in {1, 2}, d \in {1, 2},
          lc \in {1, 2}, sc \in {NO_COMPRESSION, ZLIB}, level \in {0, 1},
          n \in 0..MaxImageData, rs \in {<<>>, <<4>>}, ds \in {<<>>, <<6>>}, ls \in {<<>>, <<6>>} :
         LET descriptor == [format |-> fm, width |-> w, height |-> h, depth |-> d,
                            layer_count |-> lc, supercompression_scheme |-> sc]
         IN Call1("MipLevel.from_image_data",
                  [descriptor |-> descriptor, data |-> Content(n), level |-> level,
                   row_stride |-> rs, depth_stride |-> ds, layer_stride |-> ls],
                  MipLevel_from_image_data(descriptor, Content(n), level, rs, ds, ls))

\* the largest number of bytes a buffer is longer than its record
MaxExtra == 2

\* the first n bytes of a record followed by bytes of the value fill
Truncated(record, fill, n) == SubSeq(record \o [i \in 1..MaxExtra |-> fill], 1, n)

\* deserialize_header(raw) on a buffer of any length
DeserializeHeader ==
    /\ pc = "codec"
    /\ \E fl \in {0, UNPADDED}, fill \in {0, 255}, n \in 0..(HEADER_SIZE + MaxExtra) :
         LET raw == Truncated(serialize_header([magic |-> header.magic, resource_count |-> 2,
                                                flags |-> fl]).val, fill, n)
         IN Call1("deserialize_header_raw", raw, deserialize_header(raw))

\* deserialize_common_resource_descriptor(raw) on a buffer of any length
DeserializeCommonResourceDescriptor ==
    /\ pc = "codec"
    /\ \E t \in ResourceTypes \cup CustomTypes, fill \in {0, 255},
          n \in 0..(COMMON_DESCRIPTOR_SIZE + MaxExtra) :
         LET raw == Truncated(serialize_common_resource_descriptor(
                                  [type |-> t, format |-> 29, content_size |-> 8,
                                   extension_size |-> 0,
                                   supercompression_scheme |-> ZLIB]).val, fill, n)
         IN Call1("deserialize_common_resource_descriptor_raw", raw,
                  deserialize_common_resource_descriptor(raw))

\* deserialize_mip_level_descriptor(raw) on a buffer of any length
DeserializeMipLevelDescriptor ==
    /\ pc = "codec"
    /\ \E c \in {0, 123}, fill \in {0, 255}, n \in 0..(MIP_LEVEL_SIZE + MaxExtra) :
         LET raw == Truncated(serialize_mip_level_descriptor(
                                  [compressed_size |-> c, uncompressed_size |-> 345,
                                   row_stride |-> 6, slice_stride |-> 7,
                                   layer_stride |-> 5]).val, fill, n)
         IN Call1("deserialize_mip_level_descriptor_raw", raw,
                  deserialize_mip_level_descriptor(raw))

\* a resource is passed over in both ways from the same position:
\* a) read_composite_descriptor, fileobj.seek(content_size, io.SEEK_CUR),
\*    skip_padding; b) read_common_resource_descriptor, skip_resource.
\* The stream holds a header, the resource, its padding and 16 more bytes.
PassOverResource ==
    /\ pc = "codec"
    /\ \E t \in ResourceTypes \cup CustomTypes, fl \in {0, UNPADDED},
          e \in 0..(EXTENDED_DESCRIPTOR_SIZE + MaxExtra), c \in 0..MaxContent :
         LET h == [magic |-> header.magic, resource_count |-> 1, flags |-> fl]
             common == [type |-> t, format |-> 29, content_size |-> c,
                        extension_size |-> e, supercompression_scheme |-> NO_COMPRESSION]
             w1 == write_header(<<>>, 0, h)
             w2 == write_common_resource_descriptor(w1.f, w1.pos, common)
             body == CustomExtension(e) \o Content(c)
             w3 == write_padding(FWrite(w2.f, w2.pos, body), w2.pos + Len(body), h)
             s == w3.f \o Zeros(COMMON_DESCRIPTOR_SIZE)
             a1 == read_composite_descriptor(s, w1.pos)
             a2 == skip_padding(s, a1.pos + (IF a1.ret.ok THEN CommonPart(a1.ret.val).content_size
                                             ELSE c), h)
             b1 == read_common_resource_descriptor(s, w1.pos)
             b2 == skip_resource(s, b1.pos, b1.ret.val, h)
         IN CallOn("pass_over_resource", s,
                   [type |-> t, extension_size |-> e, content_size |-> c, flags |-> fl,
                    start |-> w1.pos, next |-> w3.pos],
                   [f |-> s, pos |-> b2.pos,
                    ret |-> Ok([read |-> a1.ret.ok, consumed |-> a1.pos - w1.pos,
                                a |-> a2.pos, b |-> b2.pos])])

\* deserialize_texture_resource_descriptor(raw) on a buffer whose common part
\* is whole and whose extension has any length
DeserializeTextureExtension ==
    /\ pc = "codec"
    /\ \E fl \in {TEXTURE_1D, TEXTURE_2D}, fill \in {0, 255},
          n \in COMMON_DESCRIPTOR_SIZE..(TOTAL_DESCRIPTOR_SIZE + MaxExtra) :
         LET raw == Truncated(serialize_texture_resource_descriptor(
                                  make_texture_resource_descriptor(
                                      29, 8, ZLIB, 10, 10, 1, 1, 1, 0, fl)).val, fill, n)
         IN Call1("deserialize_texture_resource_descriptor_extension",
                  [given |-> Len(raw) - COMMON_DESCRIPTOR_SIZE,
                   expected |-> EXTENDED_DESCRIPTOR_SIZE],
                  deserialize_texture_resource_descriptor(raw, None))

\* read_composite_descriptor(fileobj) on a texture descriptor that declares,
\* and is followed by, an extension of any length
ReadCompositeExtension ==
    /\ pc = "codec"
    /\ \E fl \in {TEXTURE_1D, TEXTURE_2D}, fill \in {0, 255},
          n \in COMMON_DESCRIPTOR_SIZE..(TOTAL_DESCRIPTOR_SIZE + MaxExtra) :
         LET d == make_texture_resource_descriptor(29, 8, ZLIB, 10, 10, 1, 1, 1, 0, fl)
             raw == Truncated(serialize_texture_resource_descriptor(d).val, fill, n)
             common == serialize_common_resource_descriptor(
                           [type |-> TEXTURE, format |-> 29, content_size |-> 8,
                            extension_size |-> n - COMMON_DESCRIPTOR_SIZE,
                            supercompression_scheme |-> ZLIB]).val
             s == common \o Slice(raw, COMMON_DESCRIPTOR_SIZE, n)
         IN CallOn("read_composite_descriptor_extension", s,
                   [given |-> n - COMMON_DESCRIPTOR_SIZE,
                    expected |-> EXTENDED_DESCRIPTOR_SIZE],
                   read_composite_descriptor(s, 0))

\* BlobResourceDescriptor.from_resource_descriptor(descriptor, raw_extended)
\* on an extension of any length
DecodeBlobExtension ==
    /\ pc = "codec"
    /\ \E u \in {0, 345}, fill \in {0, 255},
          n \in 0..(BLOB_EXTENDED_DESCRIPTOR_SIZE + MaxExtra) :
         LET descriptor == ResourceDescriptor_init(<<BLOB, UNDEFINED, 8>>,
                                                   [header |-> CodecHeader]).val
             raw == Truncated(PackQ(u) \o PackQ(0), fill, n)
         IN Call1("BlobResourceDescriptor.from_resource_descriptor",
                  [given |-> Len(raw), expected |-> BLOB_EXTENDED_DESCRIPTOR_SIZE],
                  BlobResourceDescriptor_from_resource_descriptor(descriptor, raw))

\* ResourceDescriptor.from_bytes(raw, raw_extended, header) on a descriptor
\* that declares e extension bytes and an extension of any length
GenericFromBytes ==
    /\ pc = "codec"
    /\ \E t \in ResourceTypes, e \in {0, 2}, fill \in {0, 255}, n \in 0..(2 + MaxExtra) :
         LET raw == serialize_common_resource_descriptor(
                        [type |-> t, format |-> 29, content_size |-> 8,
                         extension_size |-> e,
                         supercompression_scheme |-> ZLIB]).val
             raw_extended == [i \in 1..n |-> fill]
         IN Call1("ResourceDescriptor.from_bytes",
                  [given |-> Len(raw_extended), expected |-> e],
                  ResourceDescriptor_from_bytes(<<raw, raw_extended, CodecHeader>>))

\* make_texture_resource_descriptor(..., base_height, base_depth, ..., flags)
MakeTextureResourceDescriptor ==
    /\ pc = "codec"
    /\ \E h \in {1, 10}, d \in {1, 10}, fl \in {0, TEXTURE_1D, TEXTURE_2D, TEXTURE_3D} :
         Call1("make_texture_resource_descriptor",
               [base_height |-> h, base_depth |-> d, flags |-> fl],
               Ok(make_texture_resource_descriptor(29, 8, ZLIB, 10, h, d, 1, 1, 0, fl)))

\* ImageResourceDescriptor(format, 8, header=h, width=10, height=..., depth=...,
\*     supercompression_scheme=ZLIB, flags=[...])
ConstructImageResourceDescriptor ==
    /\ pc = "codec"
    /\ \E h \in {1, 10}, d \in {1, 10}, fl \in SUBSET {IMAGE_1D, IMAGE_2D, IMAGE_3D} :
         Call1("ImageResourceDescriptor", [height |-> h, depth |-> d, flags |-> fl],
               ImageResourceDescriptor_init(29, 8, CodecHeader, 10, h, d, 1, 1, ZLIB, fl))

\* the largest size that is aligned
MaxAlignSize == 40

\* the alignments align_size is called with
Alignments == (0..8) \cup {16, 256}

\* _align_size(orig_size, alignment), and _align_size of its result
AlignSize ==
    /\ pc = "codec"
    /\ \E x \in (0..MaxAlignSize) \cup {257}, a \in Alignments :
         LET r == align_size(x, a)
         IN Call1("align_size", [orig_size |-> x, alignment |-> a],
                  [r |-> r, again |-> IF r.ok THEN align_size(r.val, a) ELSE Err])

\* decompress(compress(data, scheme), scheme)
RoundTripCompression ==
    /\ pc = "codec"
    /\ \E data \in Buffers, sc \in Registered \cup {7} :
         LET raw == compress(data, sc)
         IN Call1("decompress", [data |-> data, supercompression_scheme |-> sc],
                  [raw |-> raw, back |-> IF raw.ok THEN decompress(raw.val, sc) ELSE Err])

\* decode_resource_descriptor(descriptor)
DecodeResourceDescriptor ==
    /\ pc = "codec"
    /\ \E d \in GenericDescriptors :
         Call1("decode_resource_descriptor", d, decode_resource_descriptor(d))

NextCodec ==
    \/ PassOverResource
    \/ FromImageData
    \/ SkipResources
    \/ SerializeResource
    \/ DecodeFlags
    \/ WriteMipLevel
    \/ DeserializeTextureExtension
    \/ ReadCompositeExtension
    \/ DecodeBlobExtension
    \/ GenericFromBytes
    \/ ReadHeaderTruncated
    \/ ReadCommonTruncated
    \/ ReadCompositeTruncated
    \/ ReadMipLevelTruncated
    \/ DeserializeHeader
    \/ DeserializeCommonResourceDescriptor
    \/ DeserializeMipLevelDescriptor
    \/ MakeTextureResourceDescriptor
    \/ ConstructImageResourceDescriptor
    \/ MakeMagicNumber
    \/ AlignSize
    \/ RoundTripCompression
    \/ DecodeResourceDescriptor
    \/ RoundTripCommon
    \/ RoundTripTexture
    \/ RoundTripMipLevelDescriptor
    \/ RoundTripMipLevelData
    \/ RoundTripBlob

SpecCodec == InitCodec /\ [][NextCodec]_vars

ValidCommon(d) ==
    /\ IsU32(d.type) /\ IsU32(d.format) /\ IsU32(d.content_size)
    /\ IsU16(d.extension_size) /\ IsU16(d.supercompression_scheme)

\* C6: for every common descriptor D with in-range fields,
\* serialize_common_resource_descriptor(D) is 16 bytes and deserializing it
\* gives D; no type, format or scheme value is rejected.
C6_CommonRoundTrip ==
    (lastop = "deserialize_common_resource_descriptor" /\ ValidCommon(arg))
      => /\ ret.raw.ok
         /\ Len(ret.raw.val) = 16
         /\ ret.back.ok
         /\ ret.back.val = arg

C6_Witness ==
    /\ lastop = "deserialize_common_resource_descriptor"
    /\ ValidCommon(arg)
    /\ arg.type = 2147483647
    /\ arg.supercompression_scheme = 7
    /\ arg.extension_size = 65535
    /\ arg.content_size = 65536
    /\ ret.back.ok

ValidTexture(d) ==
    /\ ValidCommon(d)
    /\ IsU16(d.base_width) /\ IsU16(d.base_height) /\ IsU16(d.base_depth)
    /\ IsU8(d.layer_count) /\ IsU8(d.mip_level_count) /\ IsU32(d.texture_group)
    /\ d.flags \in {TEXTURE_1D, TEXTURE_2D, TEXTURE_3D}

\* C7: for every texture descriptor D built by make_texture_resource_descriptor
\* with in-range fields and one dimensionality flag, the serialized descriptor
\* is 32 bytes (16 common + 16 extension, reserved bytes zero) and
\* deserializing it gives D field for field.
C7_TextureRoundTrip ==
    (lastop = "deserialize_texture_resource_descriptor" /\ ValidTexture(arg))
      => /\ ret.raw.ok
         /\ Len(ret.raw.val) = 32
         /\ SubSeq(ret.raw.val, 1, 16) = serialize_common_resource_descriptor(arg).val
         /\ SubSeq(ret.raw.val, 31, 32) = <<0, 0>>
         /\ ret.back.ok
         /\ ret.back.val = arg

C7_Witness ==
    /\ lastop = "deserialize_texture_resource_descriptor"
    /\ ValidTexture(arg)
    /\ arg.layer_count = 255
    /\ arg.mip_level_count = 2
    /\ arg.flags = TEXTURE_3D
    /\ arg.base_width = 65535
    /\ ret.back.ok

ValidMipLevel(d) ==
    /\ IsU32(d.compressed_size) /\ IsU32(d.uncompressed_size) /\ IsU32(d.row_stride)
    /\ IsU32(d.slice_stride) /\ IsU32(d.layer_stride)

\* C9: for every mip-level descriptor M with five u32 fields,
\* serialize_mip_level_descriptor(M) is 24 bytes, the last (reserved) u32
\* being 0, and deserialize_mip_level_descriptor of it gives M.
C9_MipLevelDescriptorRoundTrip ==
    (lastop = "deserialize_mip_level_descriptor" /\ ValidMipLevel(arg))
      => /\ ret.raw.ok
         /\ Len(ret.raw.val) = 24
         /\ SubSeq(ret.raw.val, 21, 24) = <<0, 0, 0, 0>>
         /\ ret.back.ok
         /\ ret.back.val = arg

C9_Witness ==
    /\ lastop = "deserialize_mip_level_descriptor"
    /\ arg.compressed_size = 123
    /\ arg.uncompressed_size = 345
    /\ arg.layer_stride = 5
    /\ arg.slice_stride = 7
    /\ ret.back.ok

\* C10: for every registered scheme and every list of layer_count >= 1 layer
\* buffers of equal length, deserialize_mip_level_data of
\* serialize_mip_level_data(layers, scheme), with a descriptor of that scheme
\* and layer_count, returns the original layers in the original order.
C10_MipLevelDataRoundTrip ==
    (/\ lastop = "deserialize_mip_level_data"
     /\ arg.supercompression_scheme \in Registered
     /\ arg.layer_count = Len(arg.layers)
     /\ arg.layer_count >= 1
     /\ \A i \in 1..Len(arg.layers) : Len(arg.layers[i]) = Len(arg.layers[1]))
      => /\ ret.raw.ok
         /\ ret.back.ok
         /\ ret.back.val = arg.layers

C10_Witness ==
    /\ lastop = "deserialize_mip_level_data"
    /\ arg.supercompression_scheme = DEFLATE
    /\ arg.layer_count = 2
    /\ arg.layers = <<(<<97, 255>>), (<<255, 255>>)>>
    /\ ret.raw.val # Join(arg.layers)
    /\ ret.back.ok
    /\ ret.back.val = arg.layers

\* C8: serializing a blob descriptor gives the 16-byte common descriptor with
\* type Blob and format UNDEFINED followed by the 16-byte extension
\* {uncompressed_size as u64, 8 zero bytes}, and deserializing those bytes
\* yields a descriptor with identical field values and identical raw
\* extension bytes.
C8_BlobRoundTrip ==
    lastop = "BlobResourceDescriptor.from_bytes"
      => /\ ret.raw.ok
         /\ ret.raw.val =
              serialize_common_resource_descriptor(
                  [type |-> BLOB, format |-> UNDEFINED, content_size |-> arg.size,
                   extension_size |-> 16,
                   supercompression_scheme |-> arg.supercompression_scheme]).val
              \o PackQ(arg.uncompressed_size) \o Zeros(8)
         /\ ret.back.ok
         /\ ret.back.val = arg
         /\ extended_descriptor(ret.back.val) = extended_descriptor(arg)
         /\ ret.back_file.ok
         /\ ret.back_file.val = arg

\* the serializing half of C8, which the code satisfies
C8_BlobSerialized ==
    lastop = "BlobResourceDescriptor.from_bytes"
      => /\ ret.raw.ok
         /\ ret.raw.val =
              serialize_common_resource_descriptor(
                  [type |-> BLOB, format |-> UNDEFINED, content_size |-> arg.size,
                   extension_size |-> 16,
                   supercompression_scheme |-> arg.supercompression_scheme]).val
              \o PackQ(arg.uncompressed_size) \o Zeros(8)

\* the class of descriptor the type code stands for
ClassOf(resource_type) ==
    IF resource_type = BLOB THEN "BlobResourceDescriptor"
    ELSE IF resource_type = TEXTURE THEN "ImageResourceDescriptor"
    ELSE "ResourceDescriptor"

\* C11: decoding a resource descriptor dispatches on the type code: type 0
\* gives a blob descriptor, type 1 a texture descriptor, every other type the
\* descriptor uninterpreted, and decoding never fails.  Stated of
\* decode_resource_descriptor.
C11_DecodeDispatches ==
    lastop = "decode_resource_descriptor"
      => /\ ret.ok
         /\ ret.val.cls = ClassOf(arg.resource_type)

\* the part of C11 that decode_resource_descriptor satisfies: a descriptor of
\* an unregistered type comes back as it is
C11_UnregisteredPassthrough ==
    (lastop = "decode_resource_descriptor" /\ arg.resource_type \notin ResourceTypes)
      => ret = Ok(arg)

\* C11 stated of read_composite_descriptor: a blob descriptor written is read
\* as a blob descriptor, a texture descriptor as a texture descriptor, and a
\* descriptor of any other type as its raw bytes
C11_ReadCompositeDispatches ==
    lastop = "read_composite_descriptor"
      => /\ ret.ok
         /\ LET common == CommonPart(Current.desc)
            IN IF common.type = BLOB
               THEN ~IsBytes(ret.val) /\ "uncompressed_size" \in DOMAIN ret.val
                    /\ ret.val = Current.desc
               ELSE IF common.type = TEXTURE
               THEN ~IsBytes(ret.val) /\ "base_width" \in DOMAIN ret.val
                    /\ ret.val = Current.desc
               ELSE IsBytes(ret.val)

\* C12: write_composite_resource_descriptor fails for every descriptor that is
\* neither raw bytes nor a descriptor whose type is Blob or Texture, and then
\* the content and the cursor of the stream are as they were before the call.
C12_UnknownDescriptorRejected ==
    (/\ lastop = "write_composite_resource_descriptor"
     /\ ~IsBytes(arg)
     /\ ("type" \in DOMAIN arg => arg.type \notin {BLOB, TEXTURE}))
      => /\ ~ret.ok
         /\ f = f0
         /\ pos = pos0

C12_Witness ==
    /\ lastop = "write_composite_resource_descriptor"
    /\ ~IsBytes(arg)
    /\ "type" \in DOMAIN arg
    /\ arg.type \in CustomTypes
    /\ ~ret.ok
    /\ Len(written) = 1
    /\ pos = Len(f)
    /\ f = f0

C12_WitnessNoType ==
    /\ lastop = "write_composite_resource_descriptor"
    /\ ~IsBytes(arg)
    /\ "type" \notin DOMAIN arg
    /\ ~ret.ok

\* the version the last two bytes of a magic number spell
VersionOfMagic(magic) == (PackI(magic)[3] - 48) * 10 + (PackI(magic)[4] - 48)

\* C13: for 0 <= v <= 99, make_magic_number(v) is the little-endian u32 of
\* 'G', 'C', the tens digit and the units digit of v, so v is recovered from
\* it and no other version in 0..99 has the same magic; for v > 99 it fails.
C13_MagicNumber ==
    lastop = "make_magic_number"
      => /\ (arg >= 0 /\ arg <= 99)
              => /\ ret.ok
                 /\ PackI(ret.val) = <<71, 67, 48 + (arg \div 10), 48 + (arg % 10)>>
                 /\ VersionOfMagic(ret.val) = arg
                 /\ \A w \in 0..99 : w # arg => make_magic_number(w).val # ret.val
         /\ arg > 99 => ~ret.ok

C13_Witness ==
    /\ lastop = "make_magic_number"
    /\ arg = 42
    /\ ret.ok
    /\ PackI(ret.val) = <<71, 67, 52, 50>>

C13_WitnessTooLarge ==
    /\ lastop = "make_magic_number"
    /\ arg = 100
    /\ ~ret.ok

\* C14: for every scheme of the compressor table (NO_COMPRESSION, ZLIB,
\* DEFLATE, TEST) and every byte buffer B, the empty one included,
\* decompress(compress(B, scheme), scheme) is B.
C14_CompressionRoundTrip ==
    (lastop = "decompress" /\ arg.supercompression_scheme \in Registered)
      => /\ ret.raw.ok
         /\ ret.back.ok
         /\ ret.back.val = arg.data

C14_Witness ==
    /\ lastop = "decompress"
    /\ arg.supercompression_scheme = TEST_SCHEME
    /\ arg.data = <<97, 255>>
    /\ ret.raw.val # arg.data
    /\ ret.back.ok

C14_WitnessEmpty ==
    /\ lastop = "decompress"
    /\ arg.supercompression_scheme = ZLIB
    /\ arg.data = <<>>
    /\ Len(ret.raw.val) > 0
    /\ ret.back.ok

PowerOfTwo(a) == \E k \in 0..30 : a = 2^k

\* C15: for every x >= 0 and every power-of-two alignment a, align(x, a) is a
\* multiple of a, align(x, a) >= x, align(x, a) - x < a, and
\* align(align(x, a), a) = align(x, a).
C15_AlignSize ==
    (lastop = "align_size" /\ PowerOfTwo(arg.alignment))
      => /\ ret.r.ok
         /\ ret.r.val % arg.alignment = 0
         /\ ret.r.val >= arg.orig_size
         /\ ret.r.val - arg.orig_size < arg.alignment
         /\ ret.again = ret.r

C15_Witness ==
    /\ lastop = "align_size"
    /\ arg.orig_size = 15
    /\ arg.alignment = 16
    /\ ret.r = Ok(16)
    /\ ret.again = Ok(16)

C15_WitnessAligned ==
    /\ lastop = "align_size"
    /\ arg.orig_size = 257
    /\ arg.alignment = 256
    /\ ret.r = Ok(512)

\* C16: the align function fails for every non-negative alignment that is not
\* a power of two, 0, 3, 5 and 6 included, and returns no value for it.
C16_AlignRejectsNonPowerOfTwo ==
    (lastop = "align_size" /\ ~PowerOfTwo(arg.alignment)) => ~ret.r.ok

\* the part of C16 the code satisfies: alignments that are neither 0 nor a
\* power of two are refused
C16_AlignRejectsPositiveNonPowerOfTwo ==
    (lastop = "align_size" /\ ~PowerOfTwo(arg.alignment) /\ arg.alignment # 0)
      => ~ret.r.ok

\* C17: constructing a texture/image descriptor fails when the flags hold none
\* of {1D, 2D, 3D} or more than one of them and succeeds with exactly one; on
\* success a 1D descriptor has height 1 and depth 1, a 2D descriptor keeps its
\* height and has depth 1, a 3D descriptor keeps height and depth.
C17_DimensionalityExclusive ==
    /\ lastop = "ImageResourceDescriptor"
         => IF Cardinality(arg.flags) # 1 THEN ~ret.ok
            ELSE /\ ret.ok
                 /\ ret.val.height = (IF IMAGE_1D \in arg.flags THEN 1 ELSE arg.height)
                 /\ ret.val.depth = (IF IMAGE_3D \in arg.flags THEN arg.depth ELSE 1)
    /\ lastop = "make_texture_resource_descriptor"
         => IF arg.flags \notin {TEXTURE_1D, TEXTURE_2D, TEXTURE_3D} THEN ~ret.ok
            ELSE /\ ret.ok
                 /\ ret.val.base_height =
                        (IF arg.flags = TEXTURE_1D THEN 1 ELSE arg.base_height)
                 /\ ret.val.base_depth =
                        (IF arg.flags = TEXTURE_3D THEN arg.base_depth ELSE 1)

\* what the constructors do instead: ImageResourceDescriptor raises whatever
\* the flags are, and make_texture_resource_descriptor returns the height,
\* depth and flags it was passed
C17_ConstructorsAsCoded ==
    /\ lastop = "ImageResourceDescriptor" => ~ret.ok
    /\ lastop = "make_texture_resource_descriptor"
         => /\ ret.ok
            /\ ret.val.base_height = arg.base_height
            /\ ret.val.base_depth = arg.base_depth
            /\ ret.val.flags = arg.flags

\* C18: deserialize_header, deserialize_common_resource_descriptor and
\* deserialize_mip_level_descriptor each fail, returning no value, for every
\* buffer shorter than 8, 16 and 24 bytes respectively; deserialize_header
\* also fails for every buffer longer than 8 bytes.
C18_ShortBufferRejected ==
    /\ (lastop = "deserialize_header_raw" /\ Len(arg) # 8) => ~ret.ok
    /\ (lastop = "deserialize_common_resource_descriptor_raw" /\ Len(arg) < 16) => ~ret.ok
    /\ (lastop = "deserialize_mip_level_descriptor_raw" /\ Len(arg) < 24) => ~ret.ok

C18_Witness ==
    /\ lastop = "deserialize_common_resource_descriptor_raw"
    /\ Len(arg) = 15
    /\ ~ret.ok

C18_WitnessHeaderLong ==
    /\ lastop = "deserialize_header_raw"
    /\ Len(arg) = 9
    /\ ~ret.ok

C18_WitnessMipLevel ==
    /\ lastop = "deserialize_mip_level_descriptor_raw"
    /\ Len(arg) = 23
    /\ ~ret.ok

C18_WitnessExact ==
    /\ lastop \in {"deserialize_header_raw", "deserialize_common_resource_descriptor_raw",
                   "deserialize_mip_level_descriptor_raw"}
    /\ ret.ok

TruncatedReads ==
    {"read_header_truncated", "read_common_resource_descriptor_truncated",
     "read_composite_descriptor_truncated", "read_mip_level_truncated"}

\* C19: read_header, read_common_resource_descriptor, read_composite_descriptor
\* (for blob, texture and unknown types alike) and read_mip_level fail whenever
\* the stream ends before all declared bytes of the record (fixed part,
\* extension, payload) were read, and never return a truncated value.
C19_NoTruncatedRecord ==
    (lastop \in TruncatedReads /\ Len(f0) < arg.declared) => ~ret.ok

\* the part of C19 the code satisfies: a stream that ends inside the fixed part
\* of a record, or inside the extension of a blob or texture descriptor, or
\* inside a zlib or deflate payload, is refused
C19_TruncatedFixedPartRejected ==
    /\ (lastop \in {"read_header_truncated", "read_common_resource_descriptor_truncated"}
        /\ Len(f0) < arg.declared) => ~ret.ok
    /\ (lastop = "read_composite_descriptor_truncated" /\ Len(f0) < arg.declared
        /\ (Len(f0) < COMMON_DESCRIPTOR_SIZE \/ arg.type \in {BLOB, TEXTURE})) => ~ret.ok
    /\ (lastop = "read_mip_level_truncated" /\ Len(f0) < arg.declared
        /\ (Len(f0) < MIP_LEVEL_SIZE \/ arg.supercompression_scheme # NO_COMPRESSION))
         => ~ret.ok
    /\ (lastop \in TruncatedReads /\ Len(f0) = arg.declared) => ret.ok

ExtendedDeserializers ==
    {"deserialize_texture_resource_descriptor_extension",
     "read_composite_descriptor_extension",
     "BlobResourceDescriptor.from_resource_descriptor",
     "ResourceDescriptor.from_bytes"}

\* C20: every extended-descriptor deserializer fails whenever the number of
\* extension bytes it is given differs from the extension size expected for
\* its type (16 for blob and texture, the declared extension_size for the
\* generic descriptor), with fewer bytes and with more alike.
C20_ExtensionSizeChecked ==
    (lastop \in ExtendedDeserializers /\ arg.given # arg.expected) => ~ret.ok

\* the part of C20 the code satisfies: an extension that is too short is
\* refused by every deserializer, one that is too long by the blob and the
\* generic deserializer; a texture extension of 16 bytes is accepted
C20_ShortExtensionRejected ==
    /\ (lastop \in ExtendedDeserializers /\ arg.given < arg.expected) => ~ret.ok
    /\ (lastop \in {"BlobResourceDescriptor.from_resource_descriptor",
                    "ResourceDescriptor.from_bytes"}
        /\ arg.given # arg.expected) => ~ret.ok
    /\ (lastop \in {"deserialize_texture_resource_descriptor_extension",
                    "read_composite_descriptor_extension",
                    "BlobResourceDescriptor.from_resource_descriptor"}
        /\ arg.given = arg.expected) => ret.ok

\* the texture deserializer accepts an extension that is too long
C20_TextureLongExtensionAccepted ==
    (lastop \in {"deserialize_texture_resource_descriptor_extension",
                 "read_composite_descriptor_extension"}
     /\ arg.given > arg.expected) => ret.ok

\* C21: unpacking mip-level data fails whenever the decompressed length is not
\* an exact multiple of layer_count; when it is a multiple, the result is
\* layer_count contiguous chunks of total_len / layer_count bytes each whose
\* concatenation is the whole decompressed buffer.
C21_UnpackExactMultiple ==
    (lastop = "deserialize_mip_level_data" /\ arg.supercompression_scheme \in Registered)
      => LET total == Len(Join(arg.layers))
             lc == arg.layer_count
         IN IF lc = 0 THEN ~ret.back.ok
            ELSE IF total % lc # 0 THEN ~ret.back.ok
            ELSE /\ ret.back.ok
                 /\ Len(ret.back.val) = lc
                 /\ \A i \in 1..lc : Len(ret.back.val[i]) = total \div lc
                 /\ Join(ret.back.val) = Join(arg.layers)

\* the part of C21 the code satisfies: a decompressed length that is a
\* multiple of layer_count is split into layer_count equal chunks that
\* concatenate to the whole buffer, and layer_count 0 fails
C21_MultipleSplitsEvenly ==
    (lastop = "deserialize_mip_level_data" /\ arg.supercompression_scheme \in Registered)
      => LET total == Len(Join(arg.layers))
             lc == arg.layer_count
         IN IF lc = 0 THEN ~ret.back.ok
            ELSE (total % lc = 0)
                   => /\ ret.back.ok
                      /\ Len(ret.back.val) = lc
                      /\ \A i \in 1..lc : Len(ret.back.val[i]) = total \div lc
                      /\ Join(ret.back.val) = Join(arg.layers)

\* a decompressed length with a remainder is split all the same and the
\* remainder is left out of the result
C21_RemainderDropped ==
    (/\ lastop = "deserialize_mip_level_data"
     /\ arg.supercompression_scheme \in Registered
     /\ arg.layer_count > 0
     /\ Len(Join(arg.layers)) % arg.layer_count # 0)
      => /\ ret.back.ok
         /\ Len(Join(ret.back.val)) < Len(Join(arg.layers))

\* C22: packing or writing a mip level fails whenever the number of layer
\* buffers supplied differs from the texture descriptor's layer_count; a level
\* with too few or too many layers is never written.
C22_LayerCountEnforced ==
    /\ (lastop = "deserialize_mip_level_data" /\ Len(arg.layers) # arg.layer_count)
         => ~ret.raw.ok
    /\ (lastop = "write_mip_level" /\ Len(arg.layers) # arg.layer_count)
         => (~ret.ok /\ f = f0)

\* what the code does instead: with a registered scheme every list of layers
\* is packed and written, whatever layer_count the texture descriptor holds
C22_AnyLayerListWritten ==
    /\ (lastop = "deserialize_mip_level_data" /\ arg.supercompression_scheme \in Registered)
         => ret.raw.ok
    /\ (lastop = "write_mip_level" /\ arg.supercompression_scheme \in Registered)
         => (ret.ok /\ Len(f) > Len(f0))

\* C26: write_mip_level writes a 24-byte mip-level record whose compressed_size
\* equals the number of payload bytes written right after it and whose
\* uncompressed_size equals the sum of the layer lengths, whatever sizes the
\* passed descriptor holds; the strides are written as passed, and the
\* caller's descriptor holds the same values after the call as before it.
C26_WriteMipLevelRecord ==
    (lastop = "write_mip_level" /\ arg.supercompression_scheme \in Registered)
      => LET record == deserialize_mip_level_descriptor(SubSeq(f, 1, MIP_LEVEL_SIZE))
             d == arg.mip_level_descriptor
         IN /\ ret.ok
            /\ Len(f) >= MIP_LEVEL_SIZE
            /\ record.ok
            /\ record.val.compressed_size = Len(f) - MIP_LEVEL_SIZE
            /\ pos = Len(f)
            /\ SubSeq(f, MIP_LEVEL_SIZE + 1, Len(f))
                 = compress(Join(arg.layers), arg.supercompression_scheme).val
            /\ record.val.uncompressed_size = TotalLen(arg.layers)
            /\ record.val.row_stride = d.row_stride
            /\ record.val.slice_stride = d.slice_stride
            /\ record.val.layer_stride = d.layer_stride
            /\ arg.after = d

C26_Witness ==
    /\ lastop = "write_mip_level"
    /\ arg.supercompression_scheme = ZLIB
    /\ arg.mip_level_descriptor.compressed_size = 5
    /\ arg.mip_level_descriptor.uncompressed_size = 9
    /\ TotalLen(arg.layers) = 3
    /\ ret.ok
    /\ Len(f) > MIP_LEVEL_SIZE + 3
    /\ arg.after.compressed_size = 5

C26_WitnessEmptyLayers ==
    /\ lastop = "write_mip_level"
    /\ arg.supercompression_scheme = NO_COMPRESSION
    /\ TotalLen(arg.layers) = 0
    /\ arg.mip_level_descriptor.compressed_size = 5
    /\ Len(f) = MIP_LEVEL_SIZE

\* a texture descriptor whose fields other than the two counts are in range
ValidTextureButCounts(d) ==
    /\ ValidCommon(d)
    /\ IsU16(d.base_width) /\ IsU16(d.base_height) /\ IsU16(d.base_depth)
    /\ IsU32(d.texture_group)
    /\ d.flags \in {TEXTURE_1D, TEXTURE_2D, TEXTURE_3D}

\* C23: layer_count and mip_level_count of a texture descriptor are 16-bit
\* fields: serialize_texture_resource_descriptor accepts every value in
\* 0..65535 for each of them and deserialize_texture_resource_descriptor
\* returns the same value.
C23_CountsAreU16 ==
    (/\ lastop = "deserialize_texture_resource_descriptor"
     /\ ValidTextureButCounts(arg)
     /\ IsU16(arg.layer_count) /\ IsU16(arg.mip_level_count))
      => /\ ret.raw.ok
         /\ ret.back.ok
         /\ ret.back.val.layer_count = arg.layer_count
         /\ ret.back.val.mip_level_count = arg.mip_level_count

\* what the code does: the two counts are one byte each ("=3H2BHIH"), values
\* 0..255 round-trip and every larger value is refused by the serializer
C23_CountsAreU8 ==
    (lastop = "deserialize_texture_resource_descriptor" /\ ValidTextureButCounts(arg))
      => IF IsU8(arg.layer_count) /\ IsU8(arg.mip_level_count)
         THEN /\ ret.raw.ok
              /\ ret.back.ok
              /\ ret.back.val.layer_count = arg.layer_count
              /\ ret.back.val.mip_level_count = arg.mip_level_count
              /\ ret.raw.val[23] = arg.layer_count
              /\ ret.raw.val[24] = arg.mip_level_count
         ELSE ~ret.raw.ok

\* C24: with UNPADDED unset, after write_header on an empty stream and any
\* number of resource writes (write_composite_resource_descriptor, content
\* bytes, write_padding) the stream position is a multiple of 8, so every
\* resource's common descriptor starts at a multiple of 8 from the start of
\* the container, whatever the extension and content sizes.
C24_ResourcesStartAligned ==
    header.flags = 0
      => /\ pc = "write_desc" => (pos % 8 = 0 /\ pos = Len(f))
         /\ \A i \in 1..Len(written) : written[i].start % 8 = 0

C24_Witness ==
    /\ header.flags = 0
    /\ lastop = "write_padding"
    /\ Len(written) = 2
    /\ written[1].next > written[1].pad
    /\ written[2].start = written[1].next
    /\ written[2].next > written[2].pad
    /\ IsBytes(written[1].desc)
    /\ CommonPart(written[1].desc).extension_size = 1
    /\ pos % 8 = 0

C24_WitnessNoPaddingNeeded ==
    /\ header.flags = 0
    /\ lastop = "write_padding"
    /\ Len(written) = 2
    /\ written[1].next = written[1].pad
    /\ CommonPart(written[1].desc).type = TEXTURE
    /\ written[2].start = HEADER_SIZE + TOTAL_DESCRIPTOR_SIZE

C25_WitnessExtraBits ==
    /\ lastop = "_decode_flags"
    /\ arg = 259
    /\ ret.val = {IMAGE_2D}

C25_WitnessTexture ==
    /\ lastop = "deserialize_texture_resource_descriptor"
    /\ ValidTexture(arg)
    /\ arg.flags = TEXTURE_3D
    /\ ret.back.ok
    /\ ret.back.val.flags = TEXTURE_3D

\* C27: Resource.serialize returns the serialized descriptor, whose content
\* size field equals the length of the content, followed by the content and
\* then by the fewest zero bytes that make the total length a multiple of 8
\* when UNPADDED is not in the header flags; with UNPADDED set the output is
\* exactly descriptor + content with no padding byte.
C27_ResourceSerialize ==
    lastop = "Resource.serialize"
      => /\ ret.ok
         /\ LET out == ret.val.raw
                ext == extended_descriptor(arg.descriptor).val
                dlen == COMMON_DESCRIPTOR_SIZE + Len(ext)
                n == Len(arg.content_data)
            IN /\ Len(out) >= dlen + n
               /\ SubSeq(out, 1, dlen) = ResourceDescriptor_serialize(ret.val.descriptor).val
               /\ UnpackI(SubSeq(out, 1, 4)) = arg.descriptor.resource_type
               /\ UnpackI(SubSeq(out, 9, 12)) = n
               /\ UnpackH(SubSeq(out, 13, 14)) = Len(ext)
               /\ SubSeq(out, COMMON_DESCRIPTOR_SIZE + 1, dlen) = ext
               /\ SubSeq(out, dlen + 1, dlen + n) = arg.content_data
               /\ IF arg.descriptor.header.flags = UNPADDED
                  THEN Len(out) = dlen + n
                  ELSE /\ Len(out) % 8 = 0
                       /\ Len(out) - (dlen + n) < 8
                       /\ \A i \in (dlen + n + 1)..Len(out) : out[i] = 0

\* 7 bytes of content after a 16-byte descriptor take one padding byte
C27_Witness ==
    /\ lastop = "Resource.serialize"
    /\ arg.descriptor.header.flags = 0
    /\ arg.descriptor.size = 16
    /\ Len(arg.content_data) = 7
    /\ arg.descriptor.extended = <<>>
    /\ ret.ok
    /\ Len(ret.val.raw) = 24

C27_WitnessUnpadded ==
    /\ lastop = "Resource.serialize"
    /\ arg.descriptor.header.flags = UNPADDED
    /\ arg.descriptor.cls = "BlobResourceDescriptor"
    /\ Len(arg.content_data) = 7
    /\ ret.ok
    /\ Len(ret.val.raw) = 39

C27_WitnessAligned ==
    /\ lastop = "Resource.serialize"
    /\ arg.descriptor.header.flags = 0
    /\ Len(arg.content_data) = 8
    /\ arg.descriptor.extended = <<>>
    /\ ret.ok
    /\ Len(ret.val.raw) = 24

\* C28: with the cursor at the beginning of a resource descriptor in a stream
\* made of concatenated Resource.serialize outputs, skip_resources(f, n, header)
\* leaves the cursor at the beginning of the descriptor of the resource n
\* positions further, for every content size and extension size and for both
\* padded and UNPADDED headers.
C28_SkipResourcesReachesNth ==
    lastop = "skip_resources"
      => (ret.ok /\ pos = arg.starts[arg.num_to_skip + 1])

\* what the code does: skipping no resource leaves the cursor where it was,
\* and skipping one or more raises after the first descriptor was read
C28_SkipResourcesRaises ==
    lastop = "skip_resources"
      => IF arg.num_to_skip = 0 THEN ret.ok /\ pos = 0
         ELSE ~ret.ok /\ pos > 0 /\ pos <= arg.starts[2]

\* the nearest integer to max(1, base / 2^level), the even one on a tie
MipSize(base, level) ==
    IF level = 0 THEN base
    ELSE IF base <= 2 THEN 1
    ELSE IF base % 2 = 0 THEN base \div 2
    ELSE IF ((base - 1) \div 2) % 2 = 0 THEN (base - 1) \div 2 ELSE (base + 1) \div 2

C29_WitnessBadData ==
    /\ lastop = "MipLevel.from_image_data"
    /\ arg.row_stride = <<>> /\ arg.depth_stride = <<>> /\ arg.layer_stride = <<>>
    /\ arg.descriptor.format = 27
    /\ arg.descriptor.width = 3
    /\ arg.level = 0
    /\ Len(arg.data) = 3
    /\ ~ret.ok

C29_WitnessLevelOne ==
    /\ lastop = "MipLevel.from_image_data"
    /\ arg.level = 1
    /\ arg.row_stride = <<>> /\ arg.depth_stride = <<>> /\ arg.layer_stride = <<>>
    /\ arg.descriptor.width = 3
    /\ arg.descriptor.height = 2
    /\ arg.descriptor.layer_count = 2
    /\ arg.descriptor.supercompression_scheme = ZLIB
    /\ ret.ok
    /\ ret.val.descriptor.row_stride = 6
    /\ ret.val.descriptor.depth_stride = 6
    /\ Len(arg.data) = 12
    /\ ret.val.descriptor.compressed_size > 12

C29_WitnessGivenStride ==
    /\ lastop = "MipLevel.from_image_data"
    /\ arg.row_stride = <<4>> /\ arg.depth_stride = <<>> /\ arg.layer_stride = <<>>
    /\ arg.descriptor.height = 2
    /\ ret.ok
    /\ ret.val.descriptor.depth_stride = 8

C30_WitnessUnknown ==
    /\ lastop = "pass_over_resource"
    /\ arg.type \in CustomTypes
    /\ arg.extension_size = 1
    /\ arg.content_size = 2
    /\ arg.flags = UNPADDED
    /\ ret.val.read
    /\ ret.val.a = 27

C30_WitnessBlob ==
    /\ lastop = "pass_over_resource"
    /\ arg.type = BLOB
    /\ arg.extension_size = 16
    /\ arg.flags = 0
    /\ arg.content_size = 1
    /\ ret.val.read
    /\ ret.val.a = 48

\* a blob that declares fewer extension bytes than a blob descriptor has:
\* the descriptor is refused after 16 + extension_size bytes were consumed
C30_WitnessShortExtension ==
    /\ lastop = "pass_over_resource"
    /\ arg.type = BLOB
    /\ arg.extension_size = 8
    /\ ~ret.val.read
    /\ ret.val.consumed = 24

====
